---------------------------- MODULE Spec2Model ----------------------------
(***************************************************************************)
(* Route planning of usopertov1.01: the time estimators, the time-bounded  *)
(* splitter and the planners of app/utils/routing.py, and the greedy       *)
(* planner and the vehicle assigner of app/app.py.                         *)
(*                                                                         *)
(* Geometry.  Every point lies on one meridian; a point is its latitude,   *)
(* counted in grid steps of 0.004 degrees (4000 micro-degrees).  On a      *)
(* meridian the haversine formula is R * |dlat| and the planar formula of  *)
(* app.py is 111 km * |dlat|, so both are computed exactly, in metres.     *)
(* Durations are kept in tenths of a minute, the resolution round(x, 1)    *)
(* leaves.  Fit scores are exact fractions <<numerator, denominator>>.     *)
(***************************************************************************)
EXTENDS Integers, Sequences, FiniteSets, TLC

VARIABLES
    pc,      \* position of the caller: before or after the operation
    hour,    \* datetime.now().hour, read by get_traffic_factor
    oracle,  \* behaviour of the external routing service
    inp,     \* the arguments of the call
    out,     \* the value the call returned
    log      \* values returned by earlier calls with the same arguments

vars == <<pc, hour, oracle, inp, out, log>>

(***************************************************************************)
(* Bounds of the model.                                                    *)
(***************************************************************************)
MaxPassengers == 3
MaxLat == 3
MaxVehicles == 2
MaxSeatCount == 3
MaxStops == 4

(***************************************************************************)
(* Small helpers.                                                          *)
(***************************************************************************)
Abs(x) == IF x < 0 THEN -x ELSE x

Max2(a, b) == IF a >= b THEN a ELSE b

Min2(a, b) == IF a <= b THEN a ELSE b

\* n / d rounded to the nearest integer (n >= 0, d > 0)
RoundDiv(n, d) == (2 * n + d) \div (2 * d)

Range(s) == {s[i] : i \in DOMAIN s}

RECURSIVE Flatten(_)
Flatten(ss) == IF ss = <<>> THEN <<>> ELSE Head(ss) \o Flatten(Tail(ss))

Ids(ps) == [i \in DOMAIN ps |-> ps[i].person_id]

\* the passengers of every route of rs, in route order
AllPassengers(rs) == Flatten([i \in DOMAIN rs |-> rs[i].passengers])

NoDuplicates(s) == \A i, j \in DOMAIN s : s[i] = s[j] => i = j

(***************************************************************************)
(* Geo metrics.                                                            *)
(***************************************************************************)
EarthRadiusKm == 6371

\* haversine_distance for two points of one meridian, in metres:
\* R * radians(|lat1 - lat2|), with lat = 0.004 degrees * grid index and
\* pi = 355/113
HaversineDistance(lat1, lat2) ==
    (Abs(lat1 - lat2) * 4 * EarthRadiusKm * 355) \div (180 * 113)

KmPerDegree == 111

\* the planar distance of app.py, ((dlat^2 + dlon^2) ^ 0.5) * 111, in metres
EuclidDistance(lat1, lat2) == Abs(lat1 - lat2) * 4 * KmPerDegree

\* traffic_profiles[area_type]: (from, to, factor) with factors in percent
TrafficProfile(area_type) ==
    CASE area_type = "suburban" ->
            [morning_peak |-> <<7, 9, 140>>, evening_peak |-> <<16, 19, 150>>,
             night |-> <<22, 5, 105>>, default |-> 120]
      [] area_type = "rural" ->
            [morning_peak |-> <<7, 9, 120>>, evening_peak |-> <<16, 19, 130>>,
             night |-> <<22, 5, 100>>, default |-> 110]
      [] OTHER ->
            [morning_peak |-> <<7, 10, 150>>, evening_peak |-> <<16, 20, 160>>,
             night |-> <<22, 5, 110>>, default |-> 130]

\* get_traffic_factor(hour, area_type), in percent
GetTrafficFactor(h, area_type) ==
    LET profile == TrafficProfile(area_type)
    IN  IF profile.morning_peak[1] <= h /\ h < profile.morning_peak[2]
            THEN profile.morning_peak[3]
        ELSE IF profile.evening_peak[1] <= h /\ h < profile.evening_peak[2]
            THEN profile.evening_peak[3]
        ELSE IF profile.night[1] <= h \/ h < profile.night[2]
            THEN profile.night[3]
        ELSE profile.default

\* vehicle_speeds.get(vehicle_type, 35), km/h
VehicleSpeeds(vehicle_type) ==
    CASE vehicle_type = "car" -> 40
      [] vehicle_type = "van" -> 35
      [] vehicle_type = "bus" -> 30
      [] vehicle_type = "truck" -> 25
      [] vehicle_type = "motorcycle" -> 45
      [] OTHER -> 35

\* stop_times.get(vehicle_type, 1) of routing.py, in tenths of a minute
StopTimes(vehicle_type) ==
    CASE vehicle_type = "car" -> 10
      [] vehicle_type = "van" -> 15
      [] vehicle_type = "bus" -> 25
      [] vehicle_type = "truck" -> 20
      [] vehicle_type = "motorcycle" -> 5
      [] OTHER -> 10

\* round(distance / speed * 60 * factor + stops, 1) in tenths of a minute, for
\* a distance in metres, a speed in km/h and a factor in percent
TotalTimeTenths(dist_m, speed, factor, stop_tenths) ==
    RoundDiv(dist_m * 3 * factor, 500 * speed) + stop_tenths

RECURSIVE LegsHaversine(_, _)
\* the summed legs prev -> p1 -> ... -> pn
LegsHaversine(prev_lat, passengers) ==
    IF passengers = <<>> THEN 0
    ELSE HaversineDistance(prev_lat, Head(passengers).lat)
         + LegsHaversine(Head(passengers).lat, Tail(passengers))

\* estimate_route_time of routing.py, evaluated at clock hour h
EstimateRouteTimeAt(h, start_coord, end_coord, passengers, vehicle_type, is_arrival, area_type) ==
    IF passengers = <<>> THEN 0
    ELSE LET legs == LegsHaversine(start_coord, passengers)
             last == passengers[Len(passengers)].lat
             total_distance ==
                 IF is_arrival THEN legs + HaversineDistance(last, end_coord)
                 ELSE legs
         IN  TotalTimeTenths(total_distance, VehicleSpeeds(vehicle_type),
                             GetTrafficFactor(h, area_type),
                             Len(passengers) * StopTimes(vehicle_type))

\* estimate_route_time as called: the hour is the clock's
EstimateRouteTime(start_coord, end_coord, passengers, vehicle_type, is_arrival, area_type) ==
    EstimateRouteTimeAt(hour, start_coord, end_coord, passengers,
                        vehicle_type, is_arrival, area_type)

(***************************************************************************)
(* Time-bounded splitter.                                                  *)
(***************************************************************************)
SubRoute(c, ps) ==
    [passengers |-> ps,
     estimated_time |-> EstimateRouteTime(c.start_coord, c.end_coord, ps,
                            c.vehicle_type, c.is_arrival, c.area_type)]

RECURSIVE DivideLoop(_, _, _, _)
\* the while loop of divide_route_by_time_limit and the code after it
DivideLoop(c, current_route, remaining, subroutes) ==
    IF remaining = <<>>
    THEN IF current_route # <<>>
         THEN Append(subroutes, SubRoute(c, current_route))
         ELSE subroutes
    ELSE LET test_route == Append(current_route, Head(remaining))
             test_time == SubRoute(c, test_route).estimated_time
         IN  IF test_time <= 10 * c.max_duration_minutes /\ current_route # <<>>
             THEN DivideLoop(c, test_route, Tail(remaining), subroutes)
             ELSE LET closed == IF current_route # <<>>
                                THEN Append(subroutes, SubRoute(c, current_route))
                                ELSE subroutes
                  IN  \* current_route is empty here: the passenger goes alone
                      DivideLoop(c, <<>>, Tail(remaining),
                          Append(closed, SubRoute(c, <<Head(remaining)>>)))

RECURSIVE DivideWarnings(_, _, _, _)
\* the logging.warning calls of the same loop: one for every passenger put in
\* a route of their own, with the solo_time logged
DivideWarnings(c, current_route, remaining, warnings) ==
    IF remaining = <<>> THEN warnings
    ELSE LET test_route == Append(current_route, Head(remaining))
             test_time == SubRoute(c, test_route).estimated_time
         IN  IF test_time <= 10 * c.max_duration_minutes /\ current_route # <<>>
             THEN DivideWarnings(c, test_route, Tail(remaining), warnings)
             ELSE DivideWarnings(c, <<>>, Tail(remaining),
                      Append(warnings,
                          [person_id |-> Head(remaining).person_id,
                           solo_time |-> SubRoute(c, <<Head(remaining)>>).estimated_time]))

\* a splitter that never cuts
DivideNoCut(c, passengers) ==
    IF passengers = <<>> THEN <<>> ELSE <<SubRoute(c, passengers)>>

\* a splitter that forgets the passenger that closes a sub-route
DivideDropLast(c, passengers) ==
    DivideLoop(c, <<>>, SubSeq(passengers, 1, Len(passengers) - 1), <<>>)

\* divide_route_by_time_limit; c carries start_coord, end_coord,
\* max_duration_minutes, vehicle_type, is_arrival and area_type
DivideRouteByTimeLimit(c, passengers) ==
    IF passengers = <<>> THEN <<>>
    ELSE DivideLoop(c, <<>>, passengers, <<>>)

(***************************************************************************)
(* Clusterer.                                                              *)
(***************************************************************************)
\* sklearn's DBSCAN over the latitudes (metric euclidean, in degrees): the
\* label of every point, -1 for noise.  eps50 is 50 * eps in micro-degrees.
DbscanNeighbours(lats, eps50, i) ==
    {j \in DOMAIN lats : 50 * 4000 * Abs(lats[i] - lats[j]) <= eps50}

DbscanCore(lats, eps50, min_samples, i) ==
    Cardinality(DbscanNeighbours(lats, eps50, i)) >= min_samples

RECURSIVE DbscanExpand(_, _, _, _, _)
\* the points a cluster grows to from the set S: core points pull in their
\* neighbours that carry no label yet
DbscanExpand(lats, eps50, min_samples, labels, S) ==
    LET more == {j \in DOMAIN lats :
                    /\ labels[j] = -1
                    /\ \E x \in S : /\ DbscanCore(lats, eps50, min_samples, x)
                                    /\ j \in DbscanNeighbours(lats, eps50, x)}
    IN  IF more \subseteq S THEN S
        ELSE DbscanExpand(lats, eps50, min_samples, labels, S \cup more)

RECURSIVE DbscanLabels(_, _, _, _, _, _)
DbscanLabels(lats, eps50, min_samples, labels, i, next_label) ==
    IF i > Len(lats) THEN labels
    ELSE IF labels[i] # -1 \/ ~DbscanCore(lats, eps50, min_samples, i)
         THEN DbscanLabels(lats, eps50, min_samples, labels, i + 1, next_label)
         ELSE LET members == DbscanExpand(lats, eps50, min_samples, labels, {i})
                  labelled == [j \in DOMAIN lats |->
                                  IF j \in members THEN next_label ELSE labels[j]]
              IN  DbscanLabels(lats, eps50, min_samples, labelled, i + 1,
                               next_label + 1)

RECURSIVE GroupByLabelDropNoise(_, _, _, _)
\* a grouping that leaves the noise points out
GroupByLabelDropNoise(passengers, labels, i, acc) ==
    IF i > Len(passengers) THEN acc.clusters
    ELSE LET key == labels[i]
             at == {k \in DOMAIN acc.keys : acc.keys[k] = key}
         IN  IF key = -1
             THEN GroupByLabelDropNoise(passengers, labels, i + 1, acc)
             ELSE IF at = {}
             THEN GroupByLabelDropNoise(passengers, labels, i + 1,
                      [keys |-> Append(acc.keys, key),
                       clusters |-> Append(acc.clusters, <<passengers[i]>>)])
             ELSE LET k == CHOOSE x \in at : TRUE
                  IN  GroupByLabelDropNoise(passengers, labels, i + 1,
                          [keys |-> acc.keys,
                           clusters |-> [acc.clusters EXCEPT
                                            ![k] = Append(@, passengers[i])]])

RECURSIVE GroupByLabel(_, _, _, _)
\* the dictionary of clusters as a list in insertion order: keys holds the
\* key of each cluster (a label, or -i for the noise point i)
GroupByLabel(passengers, labels, i, acc) ==
    IF i > Len(passengers) THEN acc.clusters
    ELSE LET key == IF labels[i] # -1 THEN labels[i] ELSE 0 - i
             at == {k \in DOMAIN acc.keys : acc.keys[k] = key}
         IN  IF at = {}
             THEN GroupByLabel(passengers, labels, i + 1,
                      [keys |-> Append(acc.keys, key),
                       clusters |-> Append(acc.clusters, <<passengers[i]>>)])
             ELSE LET k == CHOOSE x \in at : TRUE
                  IN  GroupByLabel(passengers, labels, i + 1,
                          [keys |-> acc.keys,
                           clusters |-> [acc.clusters EXCEPT
                                            ![k] = Append(@, passengers[i])]])

\* cluster_passengers_by_distance(passengers, epsilon, min_samples)
ClusterPassengersByDistance(passengers, eps50, min_samples) ==
    IF passengers = <<>> THEN <<>>
    ELSE LET lats == [i \in DOMAIN passengers |-> passengers[i].lat]
             labels == DbscanLabels(lats, eps50, min_samples,
                                    [i \in DOMAIN lats |-> -1], 1, 0)
         IN  GroupByLabel(passengers, labels, 1,
                          [keys |-> <<>>, clusters |-> <<>>])

\* 50 * epsilon in micro-degrees: max(0.005, min(0.02, (lat_range + lon_range) / 50))
Epsilon50(passengers) ==
    LET lats == {passengers[i].lat : i \in DOMAIN passengers}
        hi == CHOOSE x \in lats : \A y \in lats : y <= x
        lo == CHOOSE x \in lats : \A y \in lats : x <= y
    IN  Max2(50 * 5000, Min2(50 * 20000, 4000 * (hi - lo)))

\* max(1, len(passengers) // 25)
MinSamples(passengers) == Max2(1, Len(passengers) \div 25)

(***************************************************************************)
(* Stop sequencer.                                                         *)
(***************************************************************************)
\* calculate_route_distance: start -> waypoints -> end
CalculateRouteDistance(start_point, end_point, waypoints) ==
    IF waypoints = <<>> THEN 0
    ELSE LegsHaversine(start_point, waypoints)
         + HaversineDistance(waypoints[Len(waypoints)].lat, end_point)

\* itertools.permutations(range(n))
IndexPermutations(n) ==
    {p \in [1 .. n -> 1 .. n] : \A i, j \in 1 .. n : p[i] = p[j] => i = j}

\* p comes before q in the enumeration order of itertools.permutations
LexBefore(p, q) ==
    \E k \in DOMAIN p : /\ p[k] < q[k]
                        /\ \A m \in 1 .. k - 1 : p[m] = q[m]

RECURSIVE PermsOf(_), PermsFrom(_, _)
\* the permutations of S that start with an element of T, smallest first
PermsFrom(S, T) ==
    IF T = {} THEN <<>>
    ELSE LET x == CHOOSE y \in T : \A z \in T : y <= z
             sub == PermsOf(S \ {x})
         IN  [i \in DOMAIN sub |-> <<x>> \o sub[i]] \o PermsFrom(S, T \ {x})

\* list(itertools.permutations(...)) of the indices S, in the order generated
PermsOf(S) == IF S = {} THEN << <<>> >> ELSE PermsFrom(S, S)

BruteForceLimit == 5

\* the permutation lists of every length a call can need, computed once
PermutationTable == [n \in 0 .. Max2(Max2(MaxStops, MaxPassengers), BruteForceLimit + 1) |-> PermsOf(1 .. n)]

\* the body of the for loop for one permutation; best holds best_distance
\* and best_order, found FALSE while best_order is None
BruteForceStep(start_point, end_point, waypoints, perm, best) ==
    LET ordered_points == [i \in DOMAIN perm |-> waypoints[perm[i]]]
        total_dist == CalculateRouteDistance(start_point, end_point, ordered_points)
    IN  IF ~best.found \/ total_dist < best.best_distance
        THEN [found |-> TRUE, best_distance |-> total_dist, best_order |-> perm]
        ELSE best

RECURSIVE BruteForceLoop(_, _, _, _, _, _, _)
\* the for loop over the permutations lo..hi, taken in order: the first half
\* of the range, then the second on what the first leaves (the test on left
\* has left computed before the second half starts)
BruteForceLoop(start_point, end_point, waypoints, permutations, lo, hi, best) ==
    IF lo > hi THEN best
    ELSE IF lo = hi
         THEN BruteForceStep(start_point, end_point, waypoints, permutations[lo], best)
    ELSE LET mid == (lo + hi) \div 2
             left == BruteForceLoop(start_point, end_point, waypoints,
                         permutations, lo, mid, best)
         IN  IF left.found
             THEN BruteForceLoop(start_point, end_point, waypoints, permutations,
                      mid + 1, hi, left)
             ELSE BruteForceLoop(start_point, end_point, waypoints, permutations,
                      mid + 1, hi, left)

\* a brute force that keeps the last of the shortest orders it meets
BruteForceLastMinimum(start_point, end_point, waypoints) ==
    IF Len(waypoints) <= 1 THEN waypoints
    ELSE LET n == Len(waypoints)
             Order(p) == [i \in 1 .. n |-> waypoints[p[i]]]
             Dist(p) == CalculateRouteDistance(start_point, end_point, Order(p))
             best_order == CHOOSE p \in IndexPermutations(n) :
                 \A q \in IndexPermutations(n) :
                     q # p => \/ Dist(p) < Dist(q)
                              \/ Dist(p) = Dist(q) /\ LexBefore(q, p)
         IN  Order(best_order)

\* optimize_route_brute_force
OptimizeRouteBruteForce(start_point, end_point, waypoints) ==
    IF Len(waypoints) <= 1 THEN waypoints
    ELSE LET best == BruteForceLoop(start_point, end_point, waypoints,
                         PermutationTable[Len(waypoints)], 1,
                         Len(PermutationTable[Len(waypoints)]),
                         [found |-> FALSE, best_distance |-> 0,
                          best_order |-> <<>>])
         IN  IF best.found
             THEN [i \in DOMAIN best.best_order |-> waypoints[best.best_order[i]]]
             ELSE waypoints

\* route with the 1-based positions a..b reversed
ReverseSegment(route, a, b) ==
    [k \in DOMAIN route |-> IF a <= k /\ k <= b THEN route[a + b - k] ELSE route[k]]

MaxIterations == 100

RECURSIVE TwoOptPass(_, _, _, _, _)
\* a pass that reverses the last two stops without comparing distances
TwoOptPassUnchecked(start_point, end_point, st, i, j) ==
    LET n == Len(st.best_route)
        new_route == ReverseSegment(st.best_route, n - 1, n)
    IN  [best_route |-> new_route,
         best_distance |-> CalculateRouteDistance(start_point, end_point, new_route),
         improved |-> FALSE]

\* the two for loops of one pass, from the pair (i, j) on (0-based, as in
\* the code); st holds best_route, best_distance and improved
TwoOptPass(start_point, end_point, st, i, j) ==
    LET n == Len(st.best_route)
    IN  IF i > n - 3 THEN st
        ELSE IF j > n - 1 THEN TwoOptPass(start_point, end_point, st, i + 1, i + 3)
        ELSE LET new_route == ReverseSegment(st.best_route, i + 2, j + 1)
                 new_distance ==
                     CalculateRouteDistance(start_point, end_point, new_route)
             IN  IF new_distance < st.best_distance
                 THEN TwoOptPass(start_point, end_point,
                          [best_route |-> new_route,
                           best_distance |-> new_distance,
                           improved |-> TRUE], i, j + 1)
                 ELSE TwoOptPass(start_point, end_point, st, i, j + 1)

RECURSIVE TwoOptLoop(_, _, _, _, _)
TwoOptLoop(start_point, end_point, best_route, improved, iteration) ==
    IF improved /\ iteration < MaxIterations
    THEN LET st == TwoOptPass(start_point, end_point,
                       [best_route |-> best_route,
                        best_distance |-> CalculateRouteDistance(
                                              start_point, end_point, best_route),
                        improved |-> FALSE], 0, 2)
         IN  TwoOptLoop(start_point, end_point, st.best_route, st.improved,
                        iteration + 1)
    ELSE best_route

\* two_opt_optimization
TwoOptOptimization(route, start_point, end_point) ==
    IF Len(route) <= 2 THEN route
    ELSE TwoOptLoop(start_point, end_point, route, TRUE, 0)

RECURSIVE NearestNeighbourLastWins(_, _, _)
\* a construction loop that keeps the last of the closest points
NearestNeighbourLastWins(current, unvisited, route) ==
    IF unvisited = <<>> THEN route
    ELSE LET D(i) == HaversineDistance(current, unvisited[i].lat)
             closest_idx == CHOOSE i \in DOMAIN unvisited :
                 /\ \A k \in DOMAIN unvisited : D(i) <= D(k)
                 /\ \A k \in i + 1 .. Len(unvisited) : D(k) > D(i)
             next_point == unvisited[closest_idx]
             rest == [k \in 1 .. Len(unvisited) - 1 |->
                         IF k < closest_idx THEN unvisited[k] ELSE unvisited[k + 1]]
         IN  NearestNeighbourLastWins(next_point.lat, rest, Append(route, next_point))

RECURSIVE NearestNeighbour(_, _, _)
\* the construction loop of optimize_route_order_tsp
NearestNeighbour(current, unvisited, route) ==
    IF unvisited = <<>> THEN route
    ELSE LET D(i) == HaversineDistance(current, unvisited[i].lat)
             closest_idx == CHOOSE i \in DOMAIN unvisited :
                 /\ \A k \in DOMAIN unvisited : D(i) <= D(k)
                 /\ \A k \in 1 .. i - 1 : D(k) > D(i)
             next_point == unvisited[closest_idx]
             rest == [k \in 1 .. Len(unvisited) - 1 |->
                         IF k < closest_idx THEN unvisited[k] ELSE unvisited[k + 1]]
         IN  NearestNeighbour(next_point.lat, rest, Append(route, next_point))

\* optimize_route_order_tsp
OptimizeRouteOrderTsp(start_point, end_point, waypoints) ==
    IF waypoints = <<>> THEN <<>>
    ELSE IF Len(waypoints) <= 1 THEN waypoints
    ELSE IF Len(waypoints) <= BruteForceLimit
         THEN OptimizeRouteBruteForce(start_point, end_point, waypoints)
    ELSE TwoOptOptimization(NearestNeighbour(start_point, waypoints, <<>>),
                            start_point, end_point)

(***************************************************************************)
(* External duration oracle and the planner of routing.py.                 *)
(***************************************************************************)
\* What a request to the routing service comes to: None (no API key, or a
\* reply that is not 200), a failure result (a request error, or a reply
\* without features), an exception that is no RequestException, or an
\* estimate in tenths of a minute.
OracleNone == [kind |-> "none", time_minutes |-> 0]

OracleFailure == [kind |-> "failure", time_minutes |-> 0]

OracleRaise == [kind |-> "raise", time_minutes |-> 0]

OracleOk(t) == [kind |-> "ok", time_minutes |-> t]

\* get_real_route_estimate; attempt counts the earlier requests made for the
\* same cluster, the oracle answers the first request and the repeated ones
GetRealRouteEstimate(start_point, end_point, waypoints, vehicle_type, is_arrival, attempt) ==
    LET route_points == IF is_arrival
                        THEN IF waypoints # <<>> THEN Len(waypoints) + 1 ELSE 0
                        ELSE 1 + Len(waypoints)
        reply == IF attempt = 0 THEN oracle.first ELSE oracle.retry
    IN  IF reply.kind = "none" THEN OracleNone
        ELSE IF route_points < 2 THEN OracleNone
        ELSE reply

DefaultMaxRetries == 3

\* the waypoints of the retry, for an estimate over a maximum that is not 0
AdjustedWaypoints(ordered_waypoints, time_minutes, max_duration_minutes) ==
    LET n == Len(ordered_waypoints)
        \* int(len * (time / max - 1) * 0.5); negative for a negative
        \* maximum, where max(1, ...) makes it 1
        wanted == IF max_duration_minutes < 0 THEN 0
                  ELSE (n * (time_minutes - 10 * max_duration_minutes))
                           \div (2 * 10 * max_duration_minutes)
        points_to_remove == Min2(Max2(1, wanted), n - 1)
    IN  \* ordered_waypoints[:-points_to_remove]; [:-0] is empty
        IF points_to_remove < n
        THEN IF points_to_remove = 0 THEN <<>>
             ELSE SubSeq(ordered_waypoints, 1, n - points_to_remove)
        ELSE SubSeq(ordered_waypoints, 1, 1)

RECURSIVE OptimizeRouteWithApiFeedback(_, _, _, _, _, _, _)
\* optimize_route_with_api_feedback; the result keeps the keys the planner
\* reads, and raised when the call ends in an exception
OptimizeRouteWithApiFeedback(start_point, end_point, waypoints, max_duration_minutes, vehicle_type, is_arrival, max_retries) ==
    IF waypoints = <<>>
    THEN [raised |-> FALSE, success |-> FALSE, waypoints |-> <<>>,
          estimated_time |-> 0, api_failure |-> FALSE]
    ELSE
    LET ordered_waypoints == OptimizeRouteOrderTsp(start_point, end_point, waypoints)
        api_estimate == GetRealRouteEstimate(start_point, end_point,
                            ordered_waypoints, vehicle_type, is_arrival,
                            DefaultMaxRetries - max_retries)
        time_minutes == api_estimate.time_minutes
        n == Len(ordered_waypoints)
    IN  IF api_estimate.kind = "raise"
        THEN [raised |-> TRUE, success |-> FALSE, waypoints |-> <<>>,
              estimated_time |-> 0, api_failure |-> FALSE]
        ELSE IF api_estimate.kind = "ok"
        THEN IF time_minutes <= 10 * max_duration_minutes
             THEN [raised |-> FALSE, success |-> TRUE,
                   waypoints |-> ordered_waypoints,
                   estimated_time |-> time_minutes, api_failure |-> FALSE]
             ELSE IF max_retries > 0 /\ max_duration_minutes = 0
             \* time_minutes / max_duration_minutes: ZeroDivisionError
             THEN [raised |-> TRUE, success |-> FALSE, waypoints |-> <<>>,
                   estimated_time |-> 0, api_failure |-> FALSE]
             ELSE IF max_retries > 0
             THEN OptimizeRouteWithApiFeedback(start_point, end_point,
                      AdjustedWaypoints(ordered_waypoints, time_minutes,
                                        max_duration_minutes),
                      max_duration_minutes, vehicle_type, is_arrival,
                      max_retries - 1)
             ELSE [raised |-> FALSE, success |-> FALSE,
                   waypoints |-> ordered_waypoints,
                   estimated_time |-> time_minutes, api_failure |-> FALSE]
        ELSE [raised |-> FALSE, success |-> TRUE,
              waypoints |-> ordered_waypoints,
              estimated_time |-> EstimateRouteTime(start_point, end_point,
                                     ordered_waypoints, vehicle_type,
                                     is_arrival, "urban"),
              api_failure |-> TRUE]

\* the route dictionaries the planner appends for the sub-routes of a cluster
TagSubRoutes(subroutes, vehicle_type) ==
    [i \in DOMAIN subroutes |->
        [passengers |-> subroutes[i].passengers,
         estimated_time |-> subroutes[i].estimated_time,
         vehicle_type |-> vehicle_type, api_optimized |-> FALSE]]

\* fallback_route_optimization; c is the context the splitter takes
FallbackRouteOptimization(c, waypoints) ==
    LET optimized_route == OptimizeRouteOrderTsp(c.start_coord, c.end_coord, waypoints)
        estimated_time == SubRoute(c, optimized_route).estimated_time
    IN  IF estimated_time <= 10 * c.max_duration_minutes
        THEN <<[passengers |-> optimized_route,
                estimated_time |-> estimated_time,
                vehicle_type |-> c.vehicle_type, api_optimized |-> FALSE]>>
        ELSE TagSubRoutes(DivideRouteByTimeLimit(c, optimized_route),
                          c.vehicle_type)

\* a planner whose for loop lets the exception of the oracle path end the
\* work on the cluster
PlanClusterUncaught(c, cluster, use_api) ==
    IF use_api /\ Len(cluster) > 1
    THEN LET api_result == OptimizeRouteWithApiFeedback(c.start_coord,
                               c.end_coord, cluster, c.max_duration_minutes,
                               c.vehicle_type, c.is_arrival, DefaultMaxRetries)
         IN  IF api_result.raised THEN <<>>
             ELSE IF api_result.success
             THEN <<[passengers |-> api_result.waypoints,
                     estimated_time |-> api_result.estimated_time,
                     vehicle_type |-> c.vehicle_type, api_optimized |-> TRUE]>>
             ELSE TagSubRoutes(DivideRouteByTimeLimit(c, cluster), c.vehicle_type)
    ELSE FallbackRouteOptimization(c, cluster)

\* the routes one cluster adds to final_routes (the body of the for loop)
PlanCluster(c, cluster, use_api) ==
    IF use_api /\ Len(cluster) > 1
    THEN LET api_result == OptimizeRouteWithApiFeedback(c.start_coord,
                               c.end_coord, cluster, c.max_duration_minutes,
                               c.vehicle_type, c.is_arrival, DefaultMaxRetries)
         IN  IF api_result.raised
             THEN FallbackRouteOptimization(c, cluster)
             ELSE IF api_result.success
             THEN <<[passengers |-> api_result.waypoints,
                     estimated_time |-> api_result.estimated_time,
                     vehicle_type |-> c.vehicle_type, api_optimized |-> TRUE]>>
             ELSE TagSubRoutes(DivideRouteByTimeLimit(c, cluster), c.vehicle_type)
    ELSE FallbackRouteOptimization(c, cluster)

RECURSIVE InsertByTime(_, _)
\* r behind every route of sorted that is at least as long
InsertByTime(sorted, r) ==
    IF sorted = <<>> THEN <<r>>
    ELSE IF Head(sorted).estimated_time >= r.estimated_time
         THEN <<Head(sorted)>> \o InsertByTime(Tail(sorted), r)
         ELSE <<r>> \o sorted

RECURSIVE SortByTime(_)
\* sort(key = estimated_time, reverse = True): stable
SortByTime(routes) ==
    IF routes = <<>> THEN <<>>
    ELSE InsertByTime(SortByTime(SubSeq(routes, 1, Len(routes) - 1)),
                      routes[Len(routes)])

\* plan_routes_by_time_constraint of routing.py (the definition in force, the
\* one with use_api)
PlanRoutesByTimeConstraint(start_coord, end_coord, passengers, max_duration_minutes, vehicle_types, is_arrival, area_type, use_api) ==
    IF passengers = <<>> THEN <<>>
    ELSE
    LET types == IF vehicle_types = <<>> THEN <<"car">> ELSE vehicle_types
        initial_clusters == ClusterPassengersByDistance(passengers,
                                Epsilon50(passengers), MinSamples(passengers))
        Ctx(i) == [start_coord |-> start_coord, end_coord |-> end_coord,
                   max_duration_minutes |-> max_duration_minutes,
                   vehicle_type |-> types[((i - 1) % Len(types)) + 1],
                   is_arrival |-> is_arrival, area_type |-> area_type]
        final_routes == Flatten([i \in DOMAIN initial_clusters |->
                            PlanCluster(Ctx(i), initial_clusters[i], use_api)])
    IN  SortByTime(final_routes)

(***************************************************************************)
(* The greedy planner of app.py.                                           *)
(***************************************************************************)
\* stop_times.get(vehicle_type, 1) of app.py, in tenths of a minute
StopTimesApp(vehicle_type) ==
    CASE vehicle_type = "car" -> 10
      [] vehicle_type = "van" -> 15
      [] vehicle_type = "bus" -> 20
      [] vehicle_type = "truck" -> 20
      [] vehicle_type = "motorcycle" -> 5
      [] OTHER -> 10

TrafficFactorApp == 120

RECURSIVE LegsEuclid(_, _)
LegsEuclid(prev_lat, passengers) ==
    IF passengers = <<>> THEN 0
    ELSE EuclidDistance(prev_lat, Head(passengers).lat)
         + LegsEuclid(Head(passengers).lat, Tail(passengers))

\* estimate_route_time of app.py
EstimateRouteTimeApp(start_coord, end_coord, passengers, vehicle_type) ==
    IF passengers = <<>> THEN 0
    ELSE LET total_distance ==
                 LegsEuclid(start_coord, passengers)
                 + EuclidDistance(passengers[Len(passengers)].lat, end_coord)
         IN  TotalTimeTenths(total_distance, VehicleSpeeds(vehicle_type),
                             TrafficFactorApp,
                             Len(passengers) * StopTimesApp(vehicle_type))

\* the index of the first element of s equal to x
IndexOf(s, x) == CHOOSE i \in DOMAIN s : s[i] = x /\ \A k \in 1 .. i - 1 : s[k] # x

\* list.remove(x): s without its first element equal to x
RemoveFirst(s, x) ==
    LET at == IndexOf(s, x)
    IN  [k \in 1 .. Len(s) - 1 |-> IF k < at THEN s[k] ELSE s[k + 1]]

\* find_nearest_passenger: the first passenger at the least distance
FindNearestPassenger(reference_lat, passengers) ==
    LET D(i) == EuclidDistance(reference_lat, passengers[i].lat)
        at == CHOOSE i \in DOMAIN passengers :
                 /\ \A k \in DOMAIN passengers : D(i) <= D(k)
                 /\ \A k \in 1 .. i - 1 : D(k) > D(i)
    IN  passengers[at]

RECURSIVE AppFillRoute(_, _, _)
\* the inner while loop: passengers are added while the estimate allows it;
\* yields the route and the passengers still unassigned
AppFillRoute(c, current_route, unassigned_passengers) ==
    IF unassigned_passengers = <<>>
    THEN [route |-> current_route, unassigned |-> unassigned_passengers]
    ELSE LET last_passenger == current_route.passengers[Len(current_route.passengers)]
             nearest == FindNearestPassenger(last_passenger.lat, unassigned_passengers)
             temp_passengers == Append(current_route.passengers, nearest)
             estimated_time == EstimateRouteTimeApp(c.start_coord, c.end_coord,
                                   temp_passengers, current_route.vehicle_type)
         IN  IF estimated_time <= 10 * c.max_duration_minutes
             THEN AppFillRoute(c,
                      [current_route EXCEPT !.passengers = temp_passengers,
                                            !.estimated_time = estimated_time],
                      RemoveFirst(unassigned_passengers, nearest))
             ELSE [route |-> current_route, unassigned |-> unassigned_passengers]

RECURSIVE AppPlanLoop(_, _, _, _, _)
\* the outer while loop of plan_routes_by_time_constraint of app.py
AppPlanLoop(c, vehicle_types, unassigned_passengers, vehicle_type_index, routes) ==
    IF unassigned_passengers = <<>> THEN routes
    ELSE LET vehicle_type ==
                 vehicle_types[(vehicle_type_index % Len(vehicle_types)) + 1]
             nearest == FindNearestPassenger(c.start_coord, unassigned_passengers)
             current_route == [passengers |-> <<nearest>>, estimated_time |-> 0,
                               vehicle_type |-> vehicle_type]
             filled == AppFillRoute(c, current_route,
                           RemoveFirst(unassigned_passengers, nearest))
         IN  AppPlanLoop(c, vehicle_types, filled.unassigned,
                         vehicle_type_index + 1, Append(routes, filled.route))

\* plan_routes_by_time_constraint of app.py
PlanRoutesApp(start_coord, end_coord, passengers, max_duration_minutes, vehicle_types) ==
    AppPlanLoop([start_coord |-> start_coord, end_coord |-> end_coord,
                 max_duration_minutes |-> max_duration_minutes],
                IF vehicle_types = <<>> THEN <<"car">> ELSE vehicle_types,
                passengers, 0, <<>>)

(***************************************************************************)
(* Vehicle assigner of app.py.                                             *)
(***************************************************************************)
\* the keywords get_vehicle_type looks for that model.lower() contains
ModelKeywords(model) ==
    CASE model = "Marcopolo Bus" -> {"bus"}
      [] model = "Sprinter Van" -> {"van"}
      [] model = "Volvo Truck" -> {"truck"}
      [] model = "Honda Moto" -> {"moto"}
      [] OTHER -> {}

\* get_vehicle_type
GetVehicleType(model) ==
    LET has == ModelKeywords(model)
    IN  IF "bus" \in has \/ "onibus" \in has THEN "car"
        ELSE IF "van" \in has THEN "car"
        ELSE IF "truck" \in has \/ "caminhao" \in has THEN "truck"
        ELSE IF "moto" \in has \/ "motorcycle" \in has THEN "motorcycle"
        ELSE "car"

\* vehicle = None
NoVehicle == [id |-> 0, model |-> "", seats |-> 0]

\* fractions <<numerator, denominator>> with a positive denominator
FracLess(a, b) == a[1] * b[2] < b[1] * a[2]

FracLeq(a, b) == a[1] * b[2] <= b[1] * a[2]

\* a fit function without the test for a vehicle that is too small
FitScoreNoRejection(capacity, needed) ==
    IF 100 * needed > 85 * capacity THEN <<95 * capacity + 5 * needed, capacity>>
    ELSE IF 100 * needed > 70 * capacity
        THEN <<80 * capacity + 15 * needed, capacity>>
    ELSE IF 2 * needed > capacity THEN <<50 * capacity + 30 * needed, capacity>>
    ELSE <<50 * needed, capacity>>

\* calculate_fit_score(capacity, needed), with utilization = needed / capacity
CalculateFitScore(capacity, needed) ==
    IF capacity < needed THEN <<-100, 1>>
    ELSE IF 100 * needed > 85 * capacity
        THEN <<95 * capacity + 5 * needed, capacity>>
    ELSE IF 100 * needed > 70 * capacity
        THEN <<80 * capacity + 15 * needed, capacity>>
    ELSE IF 2 * needed > capacity
        THEN <<50 * capacity + 30 * needed, capacity>>
    ELSE <<50 * needed, capacity>>

RECURSIVE ScanVehiclesLargeEnough(_, _, _, _, _)
\* a loop that passes over the vehicles with fewer seats than passengers
ScanVehiclesLargeEnough(vehicles, passengers_count, assigned_ids, other_type, best) ==
    IF vehicles = <<>> THEN best
    ELSE LET vehicle == Head(vehicles)
             fit == CalculateFitScore(vehicle.seats, passengers_count)
             score == IF other_type THEN <<19 * fit[1], 20 * fit[2]>> ELSE fit
         IN  IF vehicle.id \notin assigned_ids
                /\ vehicle.seats >= passengers_count
                /\ (~best.found \/ FracLess(best.score, score))
             THEN ScanVehiclesLargeEnough(Tail(vehicles), passengers_count,
                      assigned_ids, other_type,
                      [found |-> TRUE, vehicle |-> vehicle, score |-> score])
             ELSE ScanVehiclesLargeEnough(Tail(vehicles), passengers_count,
                      assigned_ids, other_type, best)

RECURSIVE ScanVehicles(_, _, _, _, _)
\* one for loop of find_best_fit_vehicle over a list of vehicles; best holds
\* found (best_vehicle is not None), vehicle and score; the scores of
\* another type are multiplied by 0.95
ScanVehicles(vehicles, passengers_count, assigned_ids, other_type, best) ==
    IF vehicles = <<>> THEN best
    ELSE LET vehicle == Head(vehicles)
             fit == CalculateFitScore(vehicle.seats, passengers_count)
             score == IF other_type THEN <<19 * fit[1], 20 * fit[2]>> ELSE fit
         IN  IF vehicle.id \notin assigned_ids
                /\ (~best.found \/ FracLess(best.score, score))
             THEN ScanVehicles(Tail(vehicles), passengers_count, assigned_ids,
                      other_type,
                      [found |-> TRUE, vehicle |-> vehicle, score |-> score])
             ELSE ScanVehicles(Tail(vehicles), passengers_count, assigned_ids,
                      other_type, best)

RECURSIVE ScanOtherTypes(_, _, _, _, _)
ScanOtherTypes(vehicles_by_type, passengers_count, suggested_type, assigned_ids, best) ==
    IF vehicles_by_type = <<>> THEN best
    ELSE LET entry == Head(vehicles_by_type)
         IN  ScanOtherTypes(Tail(vehicles_by_type), passengers_count,
                 suggested_type, assigned_ids,
                 IF entry.vtype = suggested_type THEN best
                 ELSE ScanVehicles(entry.vehicles, passengers_count,
                                   assigned_ids, TRUE, best))

\* a search that does not look at the vehicles already assigned
FindBestFitIgnoringAssigned(passengers_count, vehicles_by_type, suggested_type, assigned_ids) ==
    LET none == [found |-> FALSE, vehicle |-> NoVehicle, score |-> <<0, 1>>]
        same == {i \in DOMAIN vehicles_by_type :
                    vehicles_by_type[i].vtype = suggested_type}
        first == IF same = {} THEN none
                 ELSE ScanVehicles(
                          vehicles_by_type[CHOOSE i \in same : TRUE].vehicles,
                          passengers_count, {}, FALSE, none)
    IN  IF ~first.found \/ FracLess(first.score, <<0, 1>>)
        THEN ScanOtherTypes(vehicles_by_type, passengers_count,
                            suggested_type, {}, first)
        ELSE first

\* a search that looks at the other types whatever the suggested type gave
FindBestFitAllTypes(passengers_count, vehicles_by_type, suggested_type, assigned_ids) ==
    LET none == [found |-> FALSE, vehicle |-> NoVehicle, score |-> <<0, 1>>]
        same == {i \in DOMAIN vehicles_by_type :
                    vehicles_by_type[i].vtype = suggested_type}
        first == IF same = {} THEN none
                 ELSE ScanVehicles(
                          vehicles_by_type[CHOOSE i \in same : TRUE].vehicles,
                          passengers_count, assigned_ids, FALSE, none)
    IN  ScanOtherTypes(vehicles_by_type, passengers_count,
                       suggested_type, assigned_ids, first)

\* find_best_fit_vehicle; vehicles_by_type lists the (type, vehicles) items
\* of the dictionary in insertion order
FindBestFitVehicle(passengers_count, vehicles_by_type, suggested_type, assigned_ids) ==
    LET none == [found |-> FALSE, vehicle |-> NoVehicle, score |-> <<0, 1>>]
        same == {i \in DOMAIN vehicles_by_type :
                    vehicles_by_type[i].vtype = suggested_type}
        first == IF same = {} THEN none
                 ELSE ScanVehicles(
                          vehicles_by_type[CHOOSE i \in same : TRUE].vehicles,
                          passengers_count, assigned_ids, FALSE, none)
    IN  IF ~first.found \/ FracLess(first.score, <<0, 1>>)
        THEN ScanOtherTypes(vehicles_by_type, passengers_count,
                            suggested_type, assigned_ids, first)
        ELSE first

RECURSIVE InsertBySeats(_, _)
InsertBySeats(sorted, v) ==
    IF sorted = <<>> THEN <<v>>
    ELSE IF Head(sorted).seats <= v.seats
         THEN <<Head(sorted)>> \o InsertBySeats(Tail(sorted), v)
         ELSE <<v>> \o sorted

RECURSIVE SortBySeats(_)
\* sorted(vehicles, key = seats): stable, ascending
SortBySeats(vehicles) ==
    IF vehicles = <<>> THEN <<>>
    ELSE InsertBySeats(SortBySeats(SubSeq(vehicles, 1, Len(vehicles) - 1)),
                       vehicles[Len(vehicles)])

RECURSIVE TypesInOrder(_, _)
TypesInOrder(vehicles, seen) ==
    IF vehicles = <<>> THEN seen
    ELSE LET t == GetVehicleType(Head(vehicles).model)
         IN  TypesInOrder(Tail(vehicles),
                 IF t \in Range(seen) THEN seen ELSE Append(seen, t))

\* vehicles_by_type of assign_vehicles_to_routes, each list sorted by seats
VehiclesByType(available_vehicles) ==
    LET types == TypesInOrder(available_vehicles, <<>>)
    IN  [i \in DOMAIN types |->
            [vtype |-> types[i],
             vehicles |-> SortBySeats(SelectSeq(available_vehicles,
                              LAMBDA v : GetVehicleType(v.model) = types[i]))]]

RECURSIVE InsertByCount(_, _)
InsertByCount(sorted, r) ==
    IF sorted = <<>> THEN <<r>>
    ELSE IF Len(Head(sorted).passengers) >= Len(r.passengers)
         THEN <<Head(sorted)>> \o InsertByCount(Tail(sorted), r)
         ELSE <<r>> \o sorted

\* the routes left in the order given
KeepOrder(routes) == routes

RECURSIVE SortByCount(_)
\* sorted(routes, key = len(passengers), reverse = True): stable
SortByCount(routes) ==
    IF routes = <<>> THEN <<>>
    ELSE InsertByCount(SortByCount(SubSeq(routes, 1, Len(routes) - 1)),
                       routes[Len(routes)])

\* the dictionary r with r[key] = val
With(r, key, val) ==
    [k \in (DOMAIN r) \cup {key} |-> IF k = key THEN val ELSE r[k]]

RECURSIVE SumSeq(_)
SumSeq(s) == IF s = <<>> THEN 0 ELSE Head(s) + SumSeq(Tail(s))

RECURSIVE FirstPass(_, _, _)
\* the first for loop of assign_vehicles_to_routes; st holds
\* assigned_vehicle_ids, result_routes and unassigned_routes
FirstPass(sorted_routes, vehicles_by_type, st) ==
    IF sorted_routes = <<>> THEN st
    ELSE LET route == Head(sorted_routes)
             best == FindBestFitVehicle(Len(route.passengers), vehicles_by_type,
                         route.vehicle_type, st.assigned_vehicle_ids)
         IN  FirstPass(Tail(sorted_routes), vehicles_by_type,
                 IF best.found
                 THEN [st EXCEPT
                          !.assigned_vehicle_ids = @ \cup {best.vehicle.id},
                          !.result_routes = Append(@,
                              With(With(route, "vehicle", best.vehicle),
                                   "fit_score", best.score))]
                 ELSE [st EXCEPT !.unassigned_routes = Append(@, route)])

RECURSIVE RedistributeLoop(_, _, _, _)
\* the for loop of redistribute_passengers_between_routes over a copy of
\* all_unassigned_passengers; st holds routes and all_unassigned_passengers
RedistributeLoop(passengers, underutilized_indices, st, k) ==
    IF k > Len(passengers) THEN st
    ELSE LET passenger == passengers[k]
             room == {i \in DOMAIN underutilized_indices :
                         LET route == st.routes[underutilized_indices[i]]
                         IN  Len(route.passengers) < route.vehicle.seats}
         IN  IF room = {}
             THEN RedistributeLoop(passengers, underutilized_indices, st, k + 1)
             ELSE LET i == CHOOSE x \in room : \A y \in room : x <= y
                      idx == underutilized_indices[i]
                  IN  RedistributeLoop(passengers, underutilized_indices,
                          [routes |-> [st.routes EXCEPT ![idx].passengers =
                                           Append(@, passenger)],
                           all_unassigned_passengers |->
                               RemoveFirst(st.all_unassigned_passengers, passenger)],
                          k + 1)

\* redistribute_passengers_between_routes: ok is the value returned, routes
\* the route list as the in-place appends leave it
RedistributePassengersBetweenRoutes(routes, unassigned_routes, underutilized_indices) ==
    LET all_unassigned_passengers == AllPassengers(unassigned_routes)
    IN  IF all_unassigned_passengers = <<>>
        THEN [ok |-> TRUE, routes |-> routes]
        ELSE LET st == RedistributeLoop(all_unassigned_passengers,
                           underutilized_indices,
                           [routes |-> routes,
                            all_unassigned_passengers |-> all_unassigned_passengers],
                           1)
             IN  [ok |-> st.all_unassigned_passengers = <<>>,
                  routes |-> st.routes]

\* What the reallocation functions give back: none is a return of None,
\* raised an exception, routes the list returned, and assigned the caller's
\* assigned routes afterwards (their dictionaries are shared, not copied).
ReallocNone(assigned) ==
    [none |-> TRUE, raised |-> FALSE, routes |-> <<>>, assigned |-> assigned]

ReallocRaised(assigned) ==
    [none |-> FALSE, raised |-> TRUE, routes |-> <<>>, assigned |-> assigned]

ReallocRoutes(routes, assigned) ==
    [none |-> FALSE, raised |-> FALSE, routes |-> routes, assigned |-> assigned]

\* try_vehicle_rebalancing
TryVehicleRebalancing(assigned_routes, unassigned_routes) ==
    IF unassigned_routes = <<>>
    THEN ReallocRoutes(assigned_routes, assigned_routes)
    ELSE LET underutilized ==
                 SelectSeq([i \in DOMAIN assigned_routes |-> i],
                     LAMBDA i : /\ assigned_routes[i].vehicle # NoVehicle
                                /\ 2 * Len(assigned_routes[i].passengers)
                                       < assigned_routes[i].vehicle.seats)
         IN  IF underutilized = <<>> THEN ReallocNone(assigned_routes)
             ELSE LET r == RedistributePassengersBetweenRoutes(
                               assigned_routes, unassigned_routes, underutilized)
                  IN  IF r.ok THEN ReallocRoutes(r.routes, r.routes)
                      ELSE ReallocNone(r.routes)

RECURSIVE BestBySize(_, _, _)
\* the vehicle with seats >= count and the least |seats - count|, the first
\* of them in list order; found is FALSE if no vehicle is large enough
BestBySize(vehicles, count, best) ==
    IF vehicles = <<>> THEN best
    ELSE LET vehicle == Head(vehicles)
         IN  BestBySize(Tail(vehicles), count,
                 IF vehicle.seats >= count
                    /\ (~best.found
                        \/ Abs(vehicle.seats - count) < Abs(best.vehicle.seats - count))
                 THEN [found |-> TRUE, vehicle |-> vehicle]
                 ELSE best)

MaxSeats(vehicles) ==
    CHOOSE m \in {vehicles[i].seats : i \in DOMAIN vehicles} :
        \A i \in DOMAIN vehicles : vehicles[i].seats <= m

RECURSIVE TryCombine(_, _, _)
\* the for loop over a copy of still_unassigned (option 2); st holds
\* result_routes, still_unassigned, available_vehicles, and combined, raised
TryCombine(route, others, st) ==
    IF others = <<>> THEN st
    ELSE IF st.available_vehicles = <<>>
         THEN [st EXCEPT !.raised = TRUE]   \* max() of an empty sequence
    ELSE LET other_route == Head(others)
             combined_passengers == route.passengers \o other_route.passengers
             best == BestBySize(st.available_vehicles, Len(combined_passengers),
                                [found |-> FALSE, vehicle |-> NoVehicle])
         IN  IF Len(route.passengers) + Len(other_route.passengers)
                    <= MaxSeats(st.available_vehicles)
                /\ best.found
             THEN [st EXCEPT
                      !.result_routes = Append(@,
                          [passengers |-> combined_passengers,
                           estimated_time |-> Max2(route.estimated_time,
                                                   other_route.estimated_time),
                           vehicle_type |-> route.vehicle_type,
                           vehicle |-> best.vehicle,
                           combined |-> TRUE]),
                      !.available_vehicles = RemoveFirst(@, best.vehicle),
                      !.still_unassigned = RemoveFirst(@, other_route),
                      !.combined = TRUE]
             ELSE TryCombine(route, Tail(others), st)

RECURSIVE ReallocateLoop(_, _)
\* the for loop of reallocate_vehicles_and_passengers
ReallocateLoop(unassigned_routes, st) ==
    IF unassigned_routes = <<>> \/ st.raised THEN st
    ELSE LET route == Head(unassigned_routes)
             best == BestBySize(st.available_vehicles, Len(route.passengers),
                                [found |-> FALSE, vehicle |-> NoVehicle])
         IN  IF best.found
             THEN ReallocateLoop(Tail(unassigned_routes),
                      [st EXCEPT
                          !.result_routes =
                              Append(@, With(route, "vehicle", best.vehicle)),
                          !.available_vehicles = RemoveFirst(@, best.vehicle)])
             ELSE LET tried == TryCombine(route, st.still_unassigned,
                                          [st EXCEPT !.combined = FALSE])
                  IN  ReallocateLoop(Tail(unassigned_routes),
                          IF tried.combined \/ tried.raised THEN tried
                          ELSE [tried EXCEPT
                                   !.still_unassigned = Append(@, route)])

\* reallocate_vehicles_and_passengers
ReallocateVehiclesAndPassengers(assigned_routes, unassigned_routes, all_vehicles, assigned_ids) ==
    LET available_vehicles ==
            SelectSeq(all_vehicles, LAMBDA v : v.id \notin assigned_ids)
    IN  IF available_vehicles = <<>>
        THEN TryVehicleRebalancing(assigned_routes, unassigned_routes)
        ELSE LET st == ReallocateLoop(unassigned_routes,
                           [result_routes |-> assigned_routes,
                            still_unassigned |-> <<>>,
                            available_vehicles |-> available_vehicles,
                            combined |-> FALSE, raised |-> FALSE])
             IN  IF st.raised THEN ReallocRaised(assigned_routes)
                 ELSE IF st.still_unassigned # <<>> THEN ReallocNone(assigned_routes)
                 ELSE ReallocRoutes(st.result_routes, assigned_routes)

\* an assigner that attaches vehicles in the first pass only and returns
\* the routes that got one
AssignDroppingUnassigned(routes, available_vehicles) ==
    LET first == FirstPass(SortByCount(routes), VehiclesByType(available_vehicles),
                     [assigned_vehicle_ids |-> {}, result_routes |-> <<>>,
                      unassigned_routes |-> <<>>])
    IN  [raised |-> FALSE, routes |-> first.result_routes]

\* the end of assign_vehicles_to_routes: the reallocation result is taken if
\* it is a list that is not empty (`if reallocation_result:`), and the routes
\* still unassigned are appended with vehicle = None
AssignReturn(first, tried, reallocation_result) ==
    LET taken == tried /\ ~reallocation_result.none
                 /\ reallocation_result.routes # <<>>
        result_routes == IF taken THEN reallocation_result.routes
                         ELSE IF tried THEN reallocation_result.assigned
                         ELSE first.result_routes
        unassigned_routes == IF taken THEN <<>> ELSE first.unassigned_routes
    IN  IF tried /\ reallocation_result.raised
        THEN [raised |-> TRUE, routes |-> <<>>]
        ELSE [raised |-> FALSE,
              routes |-> result_routes \o
                  [i \in DOMAIN unassigned_routes |->
                      With(unassigned_routes[i], "vehicle", NoVehicle)]]

\* the second pass of assign_vehicles_to_routes, on the state the first pass
\* leaves
AssignSecondPass(first, available_vehicles) ==
    LET total_available_seats ==
            SumSeq([i \in DOMAIN available_vehicles |->
                       IF available_vehicles[i].id \notin first.assigned_vehicle_ids
                       THEN available_vehicles[i].seats ELSE 0])
        total_needed_seats ==
            SumSeq([i \in DOMAIN first.unassigned_routes |->
                       Len(first.unassigned_routes[i].passengers)])
    IN  AssignReturn(first,
            first.unassigned_routes # <<>>
                /\ total_available_seats >= total_needed_seats,
            ReallocateVehiclesAndPassengers(first.result_routes,
                first.unassigned_routes, available_vehicles,
                first.assigned_vehicle_ids))

\* assign_vehicles_to_routes: routes is the list returned, raised an
\* exception leaving the function
AssignVehiclesToRoutes(routes, available_vehicles) ==
    AssignSecondPass(
        FirstPass(SortByCount(routes), VehiclesByType(available_vehicles),
            [assigned_vehicle_ids |-> {}, result_routes |-> <<>>,
             unassigned_routes |-> <<>>]),
        available_vehicles)

(***************************************************************************)
(* Inputs.                                                                 *)
(***************************************************************************)
Lats == 0 .. MaxLat

\* passengers with distinct ids 1..n at any latitudes of the grid
PassengerLists ==
    UNION {{[i \in 1 .. n |-> [person_id |-> i, lat |-> l[i]]] :
                l \in [1 .. n -> Lats]} : n \in 1 .. MaxPassengers}

\* the form offers 5..120 minutes in steps of 5
Durations == {5, 10}

Hours == {8, 13}

NoOracle == <<>>

(***************************************************************************)
(* The splitter called on its own.                                         *)
(***************************************************************************)
InitDivide ==
    /\ pc = "call"
    /\ hour \in Hours
    /\ oracle = NoOracle
    /\ inp \in [start_coord : {0}, end_coord : Lats,
                passengers : PassengerLists,
                max_duration_minutes : Durations,
                vehicle_type : {"car", "truck"},
                is_arrival : BOOLEAN, area_type : {"urban", "rural"}]
    /\ out = <<>>
    /\ log = {}

CallDivide ==
    /\ pc = "call"
    /\ pc' = "done"
    /\ out' = DivideRouteByTimeLimit(inp, inp.passengers)
    /\ log' = Range(DivideWarnings(inp, <<>>, inp.passengers, <<>>))
    /\ UNCHANGED <<hour, oracle, inp>>

NextDivide == CallDivide

SpecDivide == InitDivide /\ [][NextDivide]_vars

\* C4: every sub-route of the splitter is within the bound or holds exactly
\* one passenger
SplitWithinBoundOrSingleton ==
    pc = "done" =>
        \A i \in DOMAIN out :
            \/ out[i].estimated_time <= 10 * inp.max_duration_minutes
            \/ Len(out[i].passengers) = 1

\* a cluster beyond the bound was split, one of its passengers alone beyond it
SplitOverflowReached ==
    /\ pc = "done"
    /\ Len(inp.passengers) >= 2
    /\ SubRoute(inp, inp.passengers).estimated_time > 10 * inp.max_duration_minutes
    /\ \E i \in DOMAIN out :
           out[i].estimated_time > 10 * inp.max_duration_minutes

\* C5: the sub-routes, concatenated in output order, are the input sequence
SplitKeepsSequence ==
    pc = "done" => AllPassengers(out) = inp.passengers

\* several passengers were split into several sub-routes
SplitSeveralReached ==
    /\ pc = "done"
    /\ Len(inp.passengers) >= 3
    /\ Len(out) >= 2


\* C16: a sub-route is reported as an overflow exactly when it holds a single
\* passenger whose own estimate exceeds the bound
OverflowReportedExactly ==
    pc = "done" =>
        \A i \in DOMAIN out :
            (\E w \in log : w.person_id \in Range(Ids(out[i].passengers)))
                <=> /\ Len(out[i].passengers) = 1
                    /\ out[i].estimated_time > 10 * inp.max_duration_minutes

\* C18: the splitter packs greedily; in particular, when the first two
\* passengers together are within the bound, the first sub-route holds both
SplitPacksGreedily ==
    /\ pc = "done"
    /\ Len(inp.passengers) >= 2
    /\ SubRoute(inp, SubSeq(inp.passengers, 1, 2)).estimated_time
           <= 10 * inp.max_duration_minutes
    => /\ Len(out[1].passengers) >= 2
       /\ SubSeq(out[1].passengers, 1, 2) = SubSeq(inp.passengers, 1, 2)

(***************************************************************************)
(* The planner of routing.py called on its own, with the oracle.           *)
(***************************************************************************)
OracleReplies == {OracleNone, OracleFailure, OracleRaise, OracleOk(50), OracleOk(400)}

InitPlan ==
    /\ pc = "call"
    /\ hour \in Hours
    /\ inp \in [start_coord : {0}, end_coord : {0, MaxLat},
                passengers : PassengerLists,
                max_duration_minutes : Durations,
                vehicle_types : {<<"car", "truck">>},
                is_arrival : BOOLEAN, area_type : {"urban"},
                use_api : BOOLEAN]
    /\ oracle \in [first : OracleReplies, retry : OracleReplies]
    /\ inp.use_api = FALSE => oracle = [first |-> OracleNone, retry |-> OracleNone]
    /\ out = <<>>
    /\ log = {}

CallPlan ==
    /\ pc = "call"
    /\ pc' = "done"
    /\ out' = PlanRoutesByTimeConstraint(inp.start_coord, inp.end_coord,
                  inp.passengers, inp.max_duration_minutes, inp.vehicle_types,
                  inp.is_arrival, inp.area_type, inp.use_api)
    /\ UNCHANGED <<hour, oracle, inp, log>>

NextPlan == CallPlan

SpecPlan == InitPlan /\ [][NextPlan]_vars

\* C1: the routes returned by the planner hold every input passenger exactly
\* once, whatever the oracle does
PlanKeepsEveryPassenger ==
    pc = "done" =>
        /\ NoDuplicates(AllPassengers(out))
        /\ Range(AllPassengers(out)) = Range(inp.passengers)

\* C3: every route returned by the planner is within the bound unless it
\* holds exactly one passenger
PlanWithinBoundOrSingleton ==
    pc = "done" =>
        \A i \in DOMAIN out :
            \/ out[i].estimated_time <= 10 * inp.max_duration_minutes
            \/ Len(out[i].passengers) = 1


(***************************************************************************)
(* The assigner called on the routes of a planner.                         *)
(***************************************************************************)
VehicleModels == {"Sprinter Van", "Volvo Truck"}

\* the vehicles table: distinct ids, a model and a positive seat count
VehicleLists ==
    UNION {{[i \in 1 .. n |-> [id |-> i, model |-> m[i], seats |-> c[i]]] :
                m \in [1 .. n -> VehicleModels], c \in [1 .. n -> 1 .. MaxSeatCount]} :
           n \in 1 .. MaxVehicles}

\* the passenger counts of the routes of a plan for at most MaxPassengers
RouteSizes ==
    UNION {{sz \in [1 .. k -> 1 .. MaxPassengers] :
                SumSeq(sz) <= MaxPassengers} : k \in 1 .. MaxPassengers}

\* list(set(types)) in either order
TypeOrders(vehicles) ==
    LET types == TypesInOrder(vehicles, <<>>)
    IN  {types, [i \in DOMAIN types |-> types[Len(types) + 1 - i]]}

\* routes as a planner leaves them: disjoint passengers numbered in route
\* order, the vehicle types taken in rotation
RoutesOfSizes(sz, vehicle_types) ==
    [i \in DOMAIN sz |->
        [passengers |-> [j \in 1 .. sz[i] |->
                            [person_id |-> SumSeq(SubSeq(sz, 1, i - 1)) + j,
                             lat |-> 0]],
         estimated_time |-> 20 * sz[i],
         vehicle_type |-> vehicle_types[((i - 1) % Len(vehicle_types)) + 1]]]

InitAssign ==
    /\ pc = "call"
    /\ hour = 13
    /\ oracle = NoOracle
    /\ \E vehicles \in VehicleLists, sz \in RouteSizes :
           \E vehicle_types \in TypeOrders(vehicles) :
               inp = [routes |-> RoutesOfSizes(sz, vehicle_types),
                      available_vehicles |-> vehicles]
    /\ out = <<>>
    /\ log = {}

CallAssign ==
    /\ pc = "call"
    /\ pc' = "done"
    /\ out' = AssignVehiclesToRoutes(inp.routes, inp.available_vehicles)
    /\ UNCHANGED <<hour, oracle, inp, log>>

NextAssign == CallAssign

SpecAssign == InitAssign /\ [][NextAssign]_vars

TotalSeats(vehicles) == SumSeq([i \in DOMAIN vehicles |-> vehicles[i].seats])

\* C2: no returned route carries a vehicle with fewer seats than it has
\* passengers, and with fewer seats than passengers in total some route is
\* returned without a vehicle
NoVehicleTooSmall ==
    pc = "done" /\ ~out.raised =>
        /\ \A i \in DOMAIN out.routes :
               out.routes[i].vehicle # NoVehicle =>
                   out.routes[i].vehicle.seats >= Len(out.routes[i].passengers)
        /\ TotalSeats(inp.available_vehicles) < Len(AllPassengers(inp.routes))
               => \E i \in DOMAIN out.routes : out.routes[i].vehicle = NoVehicle

\* C6: each vehicle id is attached to at most one returned route
VehicleUsedOnce ==
    pc = "done" /\ ~out.raised =>
        \A i, j \in DOMAIN out.routes :
            /\ out.routes[i].vehicle # NoVehicle
            /\ out.routes[i].vehicle.id = out.routes[j].vehicle.id
            => i = j

\* two routes came back with two different vehicles
TwoVehiclesAttachedReached ==
    /\ pc = "done" /\ ~out.raised
    /\ \E i, j \in DOMAIN out.routes :
           /\ i # j
           /\ out.routes[i].vehicle # NoVehicle
           /\ out.routes[j].vehicle # NoVehicle

\* C7: the returned routes hold the passengers of the input routes, each
\* exactly once, and every input route comes back with a vehicle, inside a
\* route flagged combined, or with vehicle = None
AssignConservesRoutes ==
    pc = "done" /\ ~out.raised =>
        /\ NoDuplicates(AllPassengers(out.routes))
        /\ Range(AllPassengers(out.routes)) = Range(AllPassengers(inp.routes))
        /\ \A k \in DOMAIN inp.routes :
               \E i \in DOMAIN out.routes :
                   \/ out.routes[i].passengers = inp.routes[k].passengers
                   \/ /\ "combined" \in DOMAIN out.routes[i]
                      /\ Range(inp.routes[k].passengers)
                             \subseteq Range(out.routes[i].passengers)

\* some routes came back with a vehicle and some without
MixedAssignmentReached ==
    /\ pc = "done" /\ ~out.raised
    /\ Len(inp.routes) >= 2
    /\ \E i \in DOMAIN out.routes : out.routes[i].vehicle = NoVehicle
    /\ \E i \in DOMAIN out.routes : out.routes[i].vehicle # NoVehicle


\* the seats left free in the returned routes that use under half of their
\* vehicle
FreeSeatsUnderutilized(routes) ==
    SumSeq([i \in DOMAIN routes |->
               IF /\ routes[i].vehicle # NoVehicle
                  /\ 2 * Len(routes[i].passengers) < routes[i].vehicle.seats
               THEN routes[i].vehicle.seats - Len(routes[i].passengers)
               ELSE 0])

\* the passengers of the returned routes that have no vehicle
PassengersWithoutVehicle(routes) ==
    SumSeq([i \in DOMAIN routes |->
               IF routes[i].vehicle = NoVehicle
               THEN Len(routes[i].passengers) ELSE 0])

\* C19: rebalancing is attempted whenever routes are left without a vehicle
\* and some assigned route uses under half of its seats, so such routes are
\* returned together only if the free seats could not take the passengers
RebalancingAttempted ==
    /\ pc = "done" /\ ~out.raised
    /\ PassengersWithoutVehicle(out.routes) > 0
    /\ FreeSeatsUnderutilized(out.routes) > 0
    => FreeSeatsUnderutilized(out.routes) < PassengersWithoutVehicle(out.routes)


(***************************************************************************)
(* The fit score computed for two vehicles.                                *)
(***************************************************************************)
FitSeats == 1 .. 4 * MaxSeatCount

InitFit ==
    /\ pc = "call"
    /\ hour = 13
    /\ oracle = NoOracle
    /\ inp \in [capacity : FitSeats, needed : FitSeats,
                capacity2 : FitSeats, needed2 : FitSeats]
    /\ out = <<>>
    /\ log = {}

CallFit ==
    /\ pc = "call"
    /\ pc' = "done"
    /\ out' = <<CalculateFitScore(inp.capacity, inp.needed),
                CalculateFitScore(inp.capacity2, inp.needed2)>>
    /\ UNCHANGED <<hour, oracle, inp, log>>

NextFit == CallFit

SpecFit == InitFit /\ [][NextFit]_vars

\* the utilization band of needed / capacity, 1 the highest
Band(capacity, needed) ==
    IF 100 * needed > 85 * capacity THEN 1
    ELSE IF 100 * needed > 70 * capacity THEN 2
    ELSE IF 2 * needed > capacity THEN 3
    ELSE 4

\* base + slope * needed / capacity as a fraction
Linear(base, slope, capacity, needed) ==
    <<base * capacity + slope * needed, capacity>>

FracEq(a, b) == a[1] * b[2] = b[1] * a[2]

\* C10: the score is -100 for a vehicle that is too small; otherwise it lies
\* in [0, 100], follows the four bands, and within a band does not decrease
\* as the utilization grows
FitScoreContract ==
    pc = "done" =>
        LET c == inp.capacity
            n == inp.needed
            b == Band(c, n)
        IN  /\ c < n => out[1] = <<-100, 1>>
            /\ c >= n =>
                /\ FracLeq(<<0, 1>>, out[1]) /\ FracLeq(out[1], <<100, 1>>)
                /\ b = 1 => FracEq(out[1], Linear(95, 5, c, n))
                /\ b = 2 => FracEq(out[1], Linear(80, 15, c, n))
                /\ b = 3 => FracEq(out[1], Linear(50, 30, c, n))
                /\ b = 4 => FracEq(out[1], Linear(0, 50, c, n))
            /\ /\ c >= n /\ inp.capacity2 >= inp.needed2
               /\ Band(inp.capacity2, inp.needed2) = b
               /\ n * inp.capacity2 <= inp.needed2 * c
               => FracLeq(out[1], out[2])

\* two vehicles of different utilization in one band were scored
FitSameBandReached ==
    /\ pc = "done"
    /\ inp.capacity > inp.needed /\ inp.capacity2 > inp.needed2
    /\ Band(inp.capacity, inp.needed) = 2
    /\ Band(inp.capacity2, inp.needed2) = 2
    /\ inp.needed * inp.capacity2 < inp.needed2 * inp.capacity
    /\ FracLess(out[1], out[2])

(***************************************************************************)
(* Repeated calls with the same arguments while the clock advances.        *)
(***************************************************************************)
InitRepeat ==
    /\ pc = "call"
    /\ hour = 0
    /\ oracle = NoOracle
    /\ inp \in [op : {"estimate_route_time", "plan_routes_by_time_constraint"},
                start_coord : {0}, end_coord : {0},
                passengers : PassengerLists, max_duration_minutes : {5},
                vehicle_types : {<<"car">>}, is_arrival : BOOLEAN,
                area_type : {"urban"}]
    /\ out = <<>>
    /\ log = {}

\* the clock moves to the next hour
Tick ==
    /\ hour' = (hour + 1) % 24
    /\ UNCHANGED <<pc, oracle, inp, out, log>>

\* one more call with the arguments inp
CallAgain ==
    /\ pc' = "done"
    /\ out' = IF inp.op = "estimate_route_time"
              THEN <<EstimateRouteTime(inp.start_coord, inp.end_coord,
                         inp.passengers, inp.vehicle_types[1], inp.is_arrival,
                         inp.area_type)>>
              ELSE PlanRoutesByTimeConstraint(inp.start_coord, inp.end_coord,
                       inp.passengers, inp.max_duration_minutes,
                       inp.vehicle_types, inp.is_arrival, inp.area_type, FALSE)
    /\ log' = log \cup {out'}
    /\ UNCHANGED <<hour, oracle, inp>>

NextRepeat == Tick \/ CallAgain

SpecRepeat == InitRepeat /\ [][NextRepeat]_vars

\* C9: every call with the same arguments returns the same value, whenever
\* it is made
CallsAgree == \A a, b \in log : a = b

(***************************************************************************)
(* create_new_route of app.py: plan by time, then assign the vehicles.     *)
(***************************************************************************)
Init ==
    /\ pc = "form"
    /\ hour = 13
    /\ oracle = NoOracle
    /\ inp \in [start_coord : {0}, end_coord : {0, MaxLat},
                passengers : PassengerLists,
                max_duration_minutes : Durations,
                vehicles : VehicleLists]
    /\ out = [routes_by_time |-> <<>>, routes_with_vehicles |-> <<>>]
    /\ log = {}

\* routes_by_time = plan_routes_by_time_constraint(...)
PlanByTime ==
    /\ pc = "form"
    /\ pc' = "planned"
    /\ \E available_vehicle_types \in TypeOrders(inp.vehicles) :
           out' = [out EXCEPT !.routes_by_time =
                      PlanRoutesApp(inp.start_coord, inp.end_coord,
                          inp.passengers, inp.max_duration_minutes,
                          available_vehicle_types)]
    /\ UNCHANGED <<hour, oracle, inp, log>>

\* routes_with_vehicles = assign_vehicles_to_routes(routes_by_time, vehicles)
AssignVehicles ==
    /\ pc = "planned"
    /\ pc' = "assigned"
    /\ out' = [out EXCEPT !.routes_with_vehicles =
                  AssignVehiclesToRoutes(out.routes_by_time, inp.vehicles).routes]
    /\ UNCHANGED <<hour, oracle, inp, log>>

Next == PlanByTime \/ AssignVehicles

Spec == Init /\ [][Next]_vars

\* C8: the estimated_time stored with every route is the estimate of the
\* passenger sequence the route holds
StoredTimeIsEstimate ==
    \A i \in DOMAIN out.routes_by_time :
        LET r == out.routes_by_time[i]
        IN  r.estimated_time =
                EstimateRouteTimeApp(inp.start_coord, inp.end_coord,
                                     r.passengers, r.vehicle_type)

(***************************************************************************)
(* The exhaustive sequencer called on a list of stops.                     *)
(***************************************************************************)
\* the positions of the stops of a sequencer call
StopLats == 0 .. MaxLat - 1

\* waypoints as the planners pass them: distinct person ids, any positions
StopLists ==
    UNION {{[i \in 1 .. n |-> [person_id |-> i, lat |-> l[i]]] :
                l \in [1 .. n -> StopLats]} : n \in 1 .. MaxStops}

InitBruteForce ==
    /\ pc = "call"
    /\ hour = 13
    /\ oracle = NoOracle
    /\ inp \in [start_point : {0}, end_point : {0, MaxLat}, waypoints : StopLists]
    /\ out = <<>>
    /\ log = {}

CallBruteForce ==
    /\ pc = "call"
    /\ pc' = "done"
    /\ out' = OptimizeRouteBruteForce(inp.start_point, inp.end_point, inp.waypoints)
    /\ UNCHANGED <<hour, oracle, inp, log>>

NextBruteForce == CallBruteForce

SpecBruteForce == InitBruteForce /\ [][NextBruteForce]_vars

\* the waypoints of the call taken in the order p
InOrder(p) == [i \in DOMAIN p |-> inp.waypoints[p[i]]]

\* the start -> stops -> end length of the waypoints taken in the order p
LengthInOrder(p) ==
    CalculateRouteDistance(inp.start_point, inp.end_point, InOrder(p))

\* C11: for 2 to 5 waypoints the brute force returns a permutation of the
\* input that no other permutation beats, hence none longer than the
\* nearest-neighbour + 2-opt route, and the first of the shortest ones in
\* enumeration order
BruteForceShortestFirst ==
    pc = "done" /\ Len(inp.waypoints) >= 2 /\ Len(inp.waypoints) <= BruteForceLimit =>
        LET perms == IndexPermutations(Len(inp.waypoints))
            shortest == CalculateRouteDistance(inp.start_point, inp.end_point, out)
        IN  /\ \E p \in perms :
                   /\ out = InOrder(p)
                   /\ \A q \in perms :
                          /\ shortest <= LengthInOrder(q)
                          /\ shortest = LengthInOrder(q) /\ q # p => LexBefore(p, q)
            /\ shortest <= CalculateRouteDistance(inp.start_point, inp.end_point,
                               TwoOptOptimization(
                                   NearestNeighbour(inp.start_point, inp.waypoints, <<>>),
                                   inp.start_point, inp.end_point))

\* the brute force reordered three or more stops and had a tie to break
BruteForceTieReached ==
    /\ pc = "done"
    /\ Len(inp.waypoints) >= 3
    /\ out # inp.waypoints
    /\ \E p, q \in IndexPermutations(Len(inp.waypoints)) :
           /\ p # q
           /\ out = InOrder(p)
           /\ LengthInOrder(p) = LengthInOrder(q)

(***************************************************************************)
(* two_opt_optimization, one pass of its while loop at a time, then        *)
(* called once more on its own result.                                     *)
(***************************************************************************)
InitTwoOpt ==
    /\ pc = "call"
    /\ hour = 13
    /\ oracle = NoOracle
    /\ inp \in [start_point : {0}, end_point : {0, MaxLat}, route : StopLists]
    /\ out = [best_route |-> <<>>, improved |-> FALSE, iteration |-> 0]
    /\ log = {}

\* the early return for two stops or fewer, or the set-up of the loop
EnterTwoOpt ==
    /\ pc = "call"
    /\ IF Len(inp.route) <= 2
       THEN /\ pc' = "done"
            /\ out' = [out EXCEPT !.best_route = inp.route]
       ELSE /\ pc' = "loop"
            /\ out' = [best_route |-> inp.route, improved |-> TRUE, iteration |-> 0]
    /\ UNCHANGED <<hour, oracle, inp, log>>

\* one iteration of `while improved and iteration < max_iterations`
TwoOptIteration ==
    /\ pc = "loop"
    /\ out.improved /\ out.iteration < MaxIterations
    /\ LET st == TwoOptPass(inp.start_point, inp.end_point,
                     [best_route |-> out.best_route,
                      best_distance |-> CalculateRouteDistance(inp.start_point,
                                            inp.end_point, out.best_route),
                      improved |-> FALSE], 0, 2)
       IN  out' = [best_route |-> st.best_route, improved |-> st.improved,
                   iteration |-> out.iteration + 1]
    /\ UNCHANGED <<pc, hour, oracle, inp, log>>

\* the loop condition fails: return best_route
ReturnTwoOpt ==
    /\ pc = "loop"
    /\ ~(out.improved /\ out.iteration < MaxIterations)
    /\ pc' = "done"
    /\ UNCHANGED <<hour, oracle, inp, out, log>>

\* two_opt_optimization called on the route it returned
TwoOptAgain ==
    /\ pc = "done"
    /\ pc' = "again"
    /\ log' = {out.best_route}
    /\ out' = [out EXCEPT !.best_route =
                  TwoOptOptimization(out.best_route, inp.start_point, inp.end_point)]
    /\ UNCHANGED <<hour, oracle, inp>>

NextTwoOpt == EnterTwoOpt \/ TwoOptIteration \/ ReturnTwoOpt \/ TwoOptAgain

SpecTwoOpt == InitTwoOpt /\ [][NextTwoOpt]_vars

\* the start -> stops -> end length of a route of the 2-opt call
TourLength(route) == CalculateRouteDistance(inp.start_point, inp.end_point, route)

\* C12: the best distance never grows from pass to pass, the result is a
\* permutation of the input no longer than the input, and 2-opt applied to
\* its own result returns it unchanged
TwoOptNeverLonger ==
    /\ [][pc = "loop" /\ pc' = "loop"
              => TourLength(out'.best_route) <= TourLength(out.best_route)]_vars
    /\ [](pc \in {"done", "again"} =>
              /\ Len(out.best_route) = Len(inp.route)
              /\ Range(out.best_route) = Range(inp.route)
              /\ TourLength(out.best_route) <= TourLength(inp.route))
    /\ [](pc = "again" => out.best_route \in log)

\* 2-opt shortened a route and was then applied to its result
TwoOptImprovedReached ==
    /\ pc = "again"
    /\ out.iteration >= 2
    /\ TourLength(out.best_route) < TourLength(inp.route)

\* the metres by which two lengths of the same number of legs may differ
\* through the rounding of each leg to whole metres
LegRounding(route) == Len(route) + 1

\* C24: a 2-opt loop that ended before its iteration cap returns a route that
\* no reversal of a contiguous block of stops, the blocks that begin at the
\* first stop included, makes strictly shorter (by more than the rounding)
TwoOptLocallyOptimal ==
    /\ pc = "done"
    /\ Len(inp.route) > 2
    /\ out.iteration < MaxIterations
    => \A a, b \in DOMAIN out.best_route :
           a < b => TourLength(ReverseSegment(out.best_route, a, b))
                        + LegRounding(out.best_route)
                            >= TourLength(out.best_route)

\* the same for the blocks that begin after the first stop, the ones the
\* loops of the code try
TwoOptOptimalAfterFirstStop ==
    /\ pc = "done"
    /\ Len(inp.route) > 2
    /\ out.iteration < MaxIterations
    => \A a, b \in DOMAIN out.best_route :
           1 < a /\ a < b => TourLength(ReverseSegment(out.best_route, a, b))
                                 >= TourLength(out.best_route)

(***************************************************************************)
(* The estimators called for the two directions of one passenger           *)
(* sequence.                                                               *)
(***************************************************************************)
InitLegs ==
    /\ pc = "call"
    /\ hour \in Hours
    /\ oracle = NoOracle
    /\ inp \in [start_coord : {0}, end_coord : Lats,
                passengers : PassengerLists \cup {<<>>},
                vehicle_type : {"car", "bus"}, area_type : {"urban", "rural"}]
    /\ out = <<>>
    /\ log = {}

\* estimate_route_time of routing.py with is_arrival True and False, and
\* estimate_route_time of app.py, which the app calls for a route of either
\* direction
CallLegs ==
    /\ pc = "call"
    /\ pc' = "done"
    /\ out' = [arrival |-> EstimateRouteTime(inp.start_coord, inp.end_coord,
                   inp.passengers, inp.vehicle_type, TRUE, inp.area_type),
               departure |-> EstimateRouteTime(inp.start_coord, inp.end_coord,
                   inp.passengers, inp.vehicle_type, FALSE, inp.area_type),
               app_departure |-> EstimateRouteTimeApp(inp.start_coord,
                   inp.end_coord, inp.passengers, inp.vehicle_type)]
    /\ UNCHANGED <<hour, oracle, inp, log>>

NextLegs == CallLegs

SpecLegs == InitLegs /\ [][NextLegs]_vars

\* the travel time of the leg from the last passenger to the end, in tenths
LastLegTenths ==
    RoundDiv(HaversineDistance(inp.passengers[Len(inp.passengers)].lat, inp.end_coord)
                 * 3 * GetTrafficFactor(hour, inp.area_type),
             500 * VehicleSpeeds(inp.vehicle_type))

\* the estimator of routing.py: the departure estimate is the time of the legs
\* start -> p1 -> ... -> pn, and the arrival estimate exceeds it by the
\* last-leg travel time, up to the rounding of both to 0.1 minute
RoutingDepartureOmitsLastLeg ==
    pc = "done" =>
        IF inp.passengers = <<>> THEN out.arrival = 0 /\ out.departure = 0
        ELSE /\ out.departure =
                    TotalTimeTenths(LegsHaversine(inp.start_coord, inp.passengers),
                        VehicleSpeeds(inp.vehicle_type),
                        GetTrafficFactor(hour, inp.area_type),
                        Len(inp.passengers) * StopTimes(inp.vehicle_type))
             /\ out.arrival >= out.departure
             /\ Abs(out.arrival - out.departure - LastLegTenths) <= 1

\* C13: a departure estimate sums only the legs start -> p1 -> ... -> pn, the
\* arrival estimate is the departure estimate plus the last-leg travel time,
\* and the estimate of an empty passenger list is 0
DepartureOmitsLastLeg ==
    /\ RoutingDepartureOmitsLastLeg
    /\ pc = "done" =>
           IF inp.passengers = <<>> THEN out.app_departure = 0
           ELSE out.app_departure =
                    TotalTimeTenths(LegsEuclid(inp.start_coord, inp.passengers),
                        VehicleSpeeds(inp.vehicle_type), TrafficFactorApp,
                        Len(inp.passengers) * StopTimesApp(inp.vehicle_type))

(***************************************************************************)
(* The planner of routing.py and the assigner called with inputs that may  *)
(* be empty or non-positive.                                               *)
(***************************************************************************)
InitUnchecked ==
    /\ pc = "call"
    /\ hour = 13
    /\ inp \in [start_coord : {0}, end_coord : {MaxLat},
                passengers : PassengerLists \cup {<<>>},
                max_duration_minutes : {-5, 0, 5},
                vehicles : VehicleLists \cup {<<>>},
                is_arrival : {TRUE}, area_type : {"urban"}, use_api : BOOLEAN]
    /\ oracle = IF inp.use_api
                THEN [first |-> OracleOk(400), retry |-> OracleOk(400)]
                ELSE [first |-> OracleNone, retry |-> OracleNone]
    /\ out = [raised |-> FALSE, routes |-> <<>>, routes_with_vehicles |-> <<>>]
    /\ log = {}

\* plan_routes_by_time_constraint: it has no raise statement and catches the
\* exceptions of the oracle path
PlanUnchecked ==
    /\ pc = "call"
    /\ pc' = "planned"
    /\ \E vehicle_types \in TypeOrders(inp.vehicles) :
           out' = [out EXCEPT !.routes =
                      PlanRoutesByTimeConstraint(inp.start_coord, inp.end_coord,
                          inp.passengers, inp.max_duration_minutes, vehicle_types,
                          inp.is_arrival, inp.area_type, inp.use_api)]
    /\ UNCHANGED <<hour, oracle, inp, log>>

\* assign_vehicles_to_routes on the routes planned
AssignUnchecked ==
    /\ pc = "planned"
    /\ pc' = "done"
    /\ LET result == AssignVehiclesToRoutes(out.routes, inp.vehicles)
       IN  out' = [out EXCEPT !.raised = result.raised,
                              !.routes_with_vehicles = result.routes]
    /\ UNCHANGED <<hour, oracle, inp, log>>

NextUnchecked == PlanUnchecked \/ AssignUnchecked

SpecUnchecked == InitUnchecked /\ [][NextUnchecked]_vars

\* C14: with no passenger, a maximum duration that is not positive, or no
\* vehicle, the call fails with an error and nothing is planned or assigned
InvalidInputRejected ==
    /\ pc # "call"
    /\ \/ inp.passengers = <<>>
       \/ inp.max_duration_minutes <= 0
       \/ inp.vehicles = <<>>
    => /\ out.raised
       /\ out.routes = <<>>
       /\ out.routes_with_vehicles = <<>>

\* C17: for a valid input, the routes handed back after vehicle assignment
\* are in the order of non-increasing estimated duration
FinalListSortedByTime ==
    /\ pc = "done"
    /\ inp.passengers # <<>> /\ inp.max_duration_minutes > 0 /\ inp.vehicles # <<>>
    => \A i, j \in DOMAIN out.routes_with_vehicles :
           i < j => out.routes_with_vehicles[i].estimated_time
                        >= out.routes_with_vehicles[j].estimated_time

(***************************************************************************)
(* The planner of routing.py called while the oracle gives no estimate.    *)
(***************************************************************************)
OracleDownReplies == {OracleNone, OracleFailure, OracleRaise}

InitOracleDown ==
    /\ pc = "call"
    /\ hour = 8
    /\ inp \in [start_coord : {0}, end_coord : {0, MaxLat},
                passengers : PassengerLists,
                max_duration_minutes : Durations,
                vehicle_types : {<<"car", "truck">>},
                is_arrival : BOOLEAN, area_type : {"urban"},
                use_api : {TRUE}]
    /\ \E reply \in OracleDownReplies : oracle = [first |-> reply, retry |-> reply]
    /\ out = <<>>
    /\ log = {}

NextOracleDown == CallPlan

SpecOracleDown == InitOracleDown /\ [][NextOracleDown]_vars

\* C15: with the oracle absent, failing or raising, the planner still returns
\* routes for every passenger, each timed by the local estimator
OracleFailureRecovered ==
    pc = "done" =>
        /\ out # <<>>
        /\ Range(AllPassengers(out)) = Range(inp.passengers)
        /\ \A i \in DOMAIN out :
               out[i].estimated_time =
                   EstimateRouteTime(inp.start_coord, inp.end_coord,
                       out[i].passengers, out[i].vehicle_type,
                       inp.is_arrival, inp.area_type)

\* the oracle raised on a cluster of several passengers, which came back as
\* one route
OracleRaisedReached ==
    /\ pc = "done"
    /\ oracle.first = OracleRaise
    /\ \E i \in DOMAIN out : Len(out[i].passengers) >= 2


(***************************************************************************)
(* The rebalancing of app.py called on assigned and unassigned routes.     *)
(***************************************************************************)
\* routes that hold a vehicle each, with no more passengers than seats, and
\* routes without a vehicle; the passengers are numbered in route order
RebalancingInput(vehicles, filled, sz) ==
    LET n == Len(vehicles)
        all == RoutesOfSizes(filled \o sz, <<"car">>)
    IN  [assigned_routes |->
             [i \in 1 .. n |-> With(all[i], "vehicle", vehicles[i])],
         unassigned_routes |->
             [i \in 1 .. Len(sz) |-> all[n + i]]]

InitRebalancing ==
    /\ pc = "call"
    /\ hour = 13
    /\ oracle = NoOracle
    /\ \E vehicles \in VehicleLists, sz \in RouteSizes :
           \E filled \in [DOMAIN vehicles -> 1 .. MaxSeatCount] :
               /\ \A i \in DOMAIN vehicles : filled[i] <= vehicles[i].seats
               /\ inp = RebalancingInput(vehicles, filled, sz)
    /\ out = <<>>
    /\ log = {}

CallRebalancing ==
    /\ pc = "call"
    /\ pc' = "done"
    /\ out' = TryVehicleRebalancing(inp.assigned_routes, inp.unassigned_routes)
    /\ UNCHANGED <<hour, oracle, inp, log>>

NextRebalancing == CallRebalancing

SpecRebalancing == InitRebalancing /\ [][NextRebalancing]_vars

\* no assigned route holds more passengers than its vehicle has seats
SeatsNeverExceeded ==
    pc = "done" =>
        \A i \in DOMAIN out.assigned :
            Len(out.assigned[i].passengers) <= out.assigned[i].vehicle.seats

\* C20: no move makes a route exceed its seats, and a rebalancing that
\* returns None leaves the passenger lists of the assigned routes as they
\* were, so that no passenger is in an assigned and an unassigned route
RebalancingFailureLeavesRoutes ==
    pc = "done" =>
        /\ \A i \in DOMAIN out.assigned :
               Len(out.assigned[i].passengers) <= out.assigned[i].vehicle.seats
        /\ out.none =>
               /\ \A i \in DOMAIN out.assigned :
                      out.assigned[i].passengers = inp.assigned_routes[i].passengers
               /\ Range(AllPassengers(out.assigned))
                      \cap Range(AllPassengers(inp.unassigned_routes)) = {}


(***************************************************************************)
(* The vehicle search of app.py called on its own.                         *)
(***************************************************************************)
SuggestedTypes == {"car", "truck"}

InitBestFit ==
    /\ pc = "call"
    /\ hour = 13
    /\ oracle = NoOracle
    /\ \E vehicles \in VehicleLists :
           inp \in [vehicles : {vehicles},
                    passengers_count : 1 .. MaxPassengers,
                    suggested_type : SuggestedTypes,
                    assigned_ids : SUBSET {vehicles[i].id : i \in DOMAIN vehicles}]
    /\ out = <<>>
    /\ log = {}

CallBestFit ==
    /\ pc = "call"
    /\ pc' = "done"
    /\ out' = FindBestFitVehicle(inp.passengers_count,
                  VehiclesByType(inp.vehicles), inp.suggested_type,
                  inp.assigned_ids)
    /\ UNCHANGED <<hour, oracle, inp, log>>

NextBestFit == CallBestFit

SpecBestFit == InitBestFit /\ [][NextBestFit]_vars

\* the vehicles of the suggested type that are not assigned yet
FreeOfSuggestedType ==
    {i \in DOMAIN inp.vehicles :
        /\ inp.vehicles[i].id \notin inp.assigned_ids
        /\ GetVehicleType(inp.vehicles[i].model) = inp.suggested_type}

\* C21: a selected vehicle of another type carries 0.95 times its fit score
\* and is selected only if no free vehicle of the suggested type has a score
\* of 0 or more; a selected vehicle of the suggested type carries its fit score
CrossTypePenalised ==
    pc = "done" /\ out.found =>
        LET fit == CalculateFitScore(out.vehicle.seats, inp.passengers_count)
        IN  IF GetVehicleType(out.vehicle.model) = inp.suggested_type
            THEN FracEq(out.score, fit)
            ELSE /\ FracEq(out.score, <<19 * fit[1], 20 * fit[2]>>)
                 /\ \A i \in FreeOfSuggestedType :
                        FracLess(CalculateFitScore(inp.vehicles[i].seats,
                                     inp.passengers_count), <<0, 1>>)

\* a vehicle of another type was selected while a free vehicle of the
\* suggested type, too small, was there
CrossTypeSelectedReached ==
    /\ pc = "done" /\ out.found
    /\ GetVehicleType(out.vehicle.model) # inp.suggested_type
    /\ FreeOfSuggestedType # {}
    /\ out.vehicle.seats >= inp.passengers_count


(***************************************************************************)
(* The first pass of assign_vehicles_to_routes, one route at a time.       *)
(***************************************************************************)
InitFirstPass ==
    /\ pc = "loop"
    /\ hour = 13
    /\ oracle = NoOracle
    /\ \E vehicles \in VehicleLists, sz \in RouteSizes :
           \E vehicle_types \in TypeOrders(vehicles) :
               inp = [routes |-> RoutesOfSizes(sz, vehicle_types),
                      available_vehicles |-> vehicles]
    /\ out = [sorted_routes |-> SortByCount(inp.routes),
              st |-> [assigned_vehicle_ids |-> {}, result_routes |-> <<>>,
                      unassigned_routes |-> <<>>]]
    /\ log = {}

\* one iteration of `for route in sorted_routes`
FirstPassIteration ==
    /\ pc = "loop"
    /\ out.sorted_routes # <<>>
    /\ out' = [sorted_routes |-> Tail(out.sorted_routes),
               st |-> FirstPass(<<Head(out.sorted_routes)>>,
                          VehiclesByType(inp.available_vehicles), out.st)]
    /\ UNCHANGED <<pc, hour, oracle, inp, log>>

\* the loop is left
FirstPassEnd ==
    /\ pc = "loop"
    /\ out.sorted_routes = <<>>
    /\ pc' = "done"
    /\ UNCHANGED <<hour, oracle, inp, out, log>>

NextFirstPass == FirstPassIteration \/ FirstPassEnd

SpecFirstPass == InitFirstPass /\ [][NextFirstPass]_vars

\* the vehicles no route holds yet
FreeVehicles ==
    {i \in DOMAIN inp.available_vehicles :
        inp.available_vehicles[i].id \notin out.st.assigned_vehicle_ids}

\* the route handled by the next iteration is followed by no larger route
LargestRouteFirst ==
    out.sorted_routes # <<>> =>
        \A i \in DOMAIN out.sorted_routes :
            Len(out.sorted_routes[i].passengers)
                <= Len(Head(out.sorted_routes).passengers)

\* the iteration gave its route a vehicle
VehicleAttached ==
    Len(out'.st.result_routes) > Len(out.st.result_routes)

\* C22 as stated: routes are handled largest first, and a route that gets a
\* vehicle gets one whose fit score no vehicle still free exceeds
FirstPickIsBestFit ==
    [][/\ LargestRouteFirst
       /\ VehicleAttached =>
              LET needed == Len(Head(out.sorted_routes).passengers)
                  got == out'.st.result_routes[Len(out'.st.result_routes)].vehicle
              IN  \A i \in FreeVehicles :
                      FracLeq(CalculateFitScore(inp.available_vehicles[i].seats, needed),
                              CalculateFitScore(got.seats, needed))]_vars

\* C22 amended: routes are handled largest first, and a route that gets a
\* vehicle gets one whose fit score no free vehicle of its own type exceeds;
\* a vehicle of the suggested type is preferred when one scores 0 or more
FirstPickIsBestFitOfType ==
    [][/\ LargestRouteFirst
       /\ VehicleAttached =>
              LET route == Head(out.sorted_routes)
                  needed == Len(route.passengers)
                  got == out'.st.result_routes[Len(out'.st.result_routes)].vehicle
                  suggested(v) == GetVehicleType(v.model) = route.vehicle_type
                  fit(v) == CalculateFitScore(v.seats, needed)
              IN  /\ got.id \in {inp.available_vehicles[i].id : i \in FreeVehicles}
                  /\ \A i \in FreeVehicles :
                         LET v == inp.available_vehicles[i]
                         IN  /\ suggested(v) = suggested(got)
                                    => FracLeq(fit(v), fit(got))
                             /\ suggested(v) /\ ~suggested(got)
                                    => FracLess(fit(v), <<0, 1>>)]_vars

\* total_available_seats as the second pass would compute it
TotalAvailableSeats ==
    SumSeq([i \in DOMAIN inp.available_vehicles |->
               IF i \in FreeVehicles THEN inp.available_vehicles[i].seats ELSE 0])

\* C29: a route is put in unassigned_routes only when no vehicle is free,
\* so while a route is unassigned the unassigned seats total 0
UnassignedOnlyWhenFleetUsed ==
    /\ [][Len(out'.st.unassigned_routes) > Len(out.st.unassigned_routes)
              => FreeVehicles = {}]_vars
    /\ [](out.st.unassigned_routes # <<>>
              => FreeVehicles = {} /\ TotalAvailableSeats = 0)

\* the first pass ended with some routes served and a route left over
FleetUsedUpReached ==
    /\ pc = "done"
    /\ out.st.unassigned_routes # <<>>
    /\ out.st.result_routes # <<>>
    /\ \E i \in DOMAIN out.st.result_routes :
           out.st.result_routes[i].vehicle.seats
               < Len(out.st.result_routes[i].passengers)

\* a route took a vehicle of its suggested type while a free vehicle of
\* another type had a higher fit score, and a smaller route is still waiting
TypePreferredReached ==
    /\ pc = "loop"
    /\ out.st.result_routes # <<>>
    /\ out.sorted_routes # <<>>
    /\ LET r == out.st.result_routes[Len(out.st.result_routes)]
       IN  /\ Len(Head(out.sorted_routes).passengers) < Len(r.passengers)
           /\ GetVehicleType(r.vehicle.model) = r.vehicle_type
           /\ \E i \in FreeVehicles :
                  FracLess(CalculateFitScore(r.vehicle.seats, Len(r.passengers)),
                           CalculateFitScore(inp.available_vehicles[i].seats,
                                             Len(r.passengers)))


(***************************************************************************)
(* The reallocation of app.py called on assigned and unassigned routes.    *)
(***************************************************************************)
\* the passenger counts of up to MaxPassengers unassigned routes
UnassignedSizes ==
    UNION {[1 .. k -> 1 .. MaxPassengers] : k \in 1 .. MaxPassengers}

\* the vehicles of the list whose id is in ids, in list order
VehiclesWithIds(vehicles, ids) == SelectSeq(vehicles, LAMBDA v : v.id \in ids)

InitReallocate ==
    /\ pc = "call"
    /\ hour = 13
    /\ oracle = NoOracle
    /\ \E vehicles \in VehicleLists, sz \in UnassignedSizes :
           \E assigned_ids \in SUBSET {vehicles[i].id : i \in DOMAIN vehicles} :
               LET held == VehiclesWithIds(vehicles, assigned_ids)
                   routes == RebalancingInput(held,
                                 [i \in DOMAIN held |-> held[i].seats], sz)
               IN  inp = [assigned_routes |-> routes.assigned_routes,
                          unassigned_routes |-> routes.unassigned_routes,
                          all_vehicles |-> vehicles,
                          assigned_ids |-> assigned_ids]
    /\ out = <<>>
    /\ log = {}

CallReallocate ==
    /\ pc = "call"
    /\ pc' = "done"
    /\ out' = ReallocateVehiclesAndPassengers(inp.assigned_routes,
                  inp.unassigned_routes, inp.all_vehicles, inp.assigned_ids)
    /\ UNCHANGED <<hour, oracle, inp, log>>

SpecReallocate == InitReallocate /\ [][CallReallocate]_vars

\* the returned routes that the call added to the assigned ones
PlacedRoutes ==
    SubSeq(out.routes, Len(inp.assigned_routes) + 1, Len(out.routes))

\* a returned list holds every passenger once, every added route has a
\* vehicle of its own with seats enough, and a merged route is flagged
ReallocationPlacesAll ==
    pc = "done" /\ ~out.raised /\ ~out.none =>
        /\ NoDuplicates(AllPassengers(out.routes))
        /\ Range(AllPassengers(out.routes))
               = Range(AllPassengers(inp.assigned_routes))
                     \cup Range(AllPassengers(inp.unassigned_routes))
        /\ \A i \in DOMAIN PlacedRoutes :
               /\ PlacedRoutes[i].vehicle.id \notin inp.assigned_ids
               /\ PlacedRoutes[i].vehicle.seats >= Len(PlacedRoutes[i].passengers)
               /\ \A j \in DOMAIN PlacedRoutes :
                      PlacedRoutes[i].vehicle.id = PlacedRoutes[j].vehicle.id => i = j
               /\ \/ "combined" \in DOMAIN PlacedRoutes[i]
                  \/ \E k \in DOMAIN inp.unassigned_routes :
                         PlacedRoutes[i].passengers
                             = inp.unassigned_routes[k].passengers

\* C23: the reallocation returns the route list or None and raises for no
\* input, and a returned list places every route as the claim says
ReallocationNeverRaises ==
    pc = "done" =>
        /\ ~out.raised
        /\ ~out.none =>
               /\ Range(AllPassengers(out.routes))
                      = Range(AllPassengers(inp.assigned_routes))
                            \cup Range(AllPassengers(inp.unassigned_routes))
               /\ \A i \in DOMAIN PlacedRoutes :
                      PlacedRoutes[i].vehicle.seats >= Len(PlacedRoutes[i].passengers)


(***************************************************************************)
(* The sequencer of routing.py called with 0 to 6 waypoints.               *)
(***************************************************************************)
TspLats == {0, 1, MaxLat - 1}

\* waypoints with distinct person ids, of every length up to one more than
\* the brute force takes
TspStopLists ==
    UNION {{[i \in 1 .. n |-> [person_id |-> i, lat |-> l[i]]] :
                l \in [1 .. n -> TspLats]} : n \in 0 .. BruteForceLimit + 1}

InitTsp ==
    /\ pc = "call"
    /\ hour = 13
    /\ oracle = NoOracle
    /\ inp \in [start_point : {0, 1}, end_point : {0, MaxLat},
                waypoints : TspStopLists]
    /\ out = <<>>
    /\ log = {}

CallTsp ==
    /\ pc = "call"
    /\ pc' = "done"
    /\ out' = OptimizeRouteOrderTsp(inp.start_point, inp.end_point, inp.waypoints)
    /\ UNCHANGED <<hour, oracle, inp, log>>

SpecTsp == InitTsp /\ [][CallTsp]_vars

\* route visits the waypoints nearest first from the start: each stop is
\* the closest of those not visited before it, the earliest in the input
\* among the closest
IsNearestFirst(route) ==
    /\ Len(route) = Len(inp.waypoints)
    /\ Range(route) = Range(inp.waypoints)
    /\ \A k \in DOMAIN route :
           LET current == IF k = 1 THEN inp.start_point ELSE route[k - 1].lat
               visited == {route[m].person_id : m \in 1 .. k - 1}
               D(p) == HaversineDistance(current, p.lat)
           IN  \A i \in DOMAIN inp.waypoints :
                   LET p == inp.waypoints[i]
                   IN  p.person_id \notin visited /\ p # route[k] =>
                           \/ D(route[k]) < D(p)
                           \/ D(route[k]) = D(p) /\ route[k].person_id < p.person_id

\* C25: the sequencer returns every waypoint once; up to 1 waypoint comes
\* back as given, 2 to 5 come back in an order no permutation beats, and
\* more come back as 2-opt leaves the nearest-first order
TspReturnsPermutation ==
    pc = "done" =>
        LET n == Len(inp.waypoints)
        IN  /\ Len(out) = n
            /\ Range(out) = Range(inp.waypoints)
            /\ n <= 1 => out = inp.waypoints
            /\ 2 <= n /\ n <= BruteForceLimit =>
                   \A k \in DOMAIN PermutationTable[n] :
                       CalculateRouteDistance(inp.start_point, inp.end_point, out)
                           <= LengthInOrder(PermutationTable[n][k])
            /\ n > BruteForceLimit =>
                   \E k \in DOMAIN PermutationTable[n] :
                       /\ IsNearestFirst(InOrder(PermutationTable[n][k]))
                       /\ out = TwoOptOptimization(InOrder(PermutationTable[n][k]),
                                    inp.start_point, inp.end_point)

\* more than 5 waypoints came back in another order than given, two of them
\* equally close to the start
TspHeuristicReached ==
    /\ pc = "done"
    /\ Len(inp.waypoints) > BruteForceLimit
    /\ out # inp.waypoints
    /\ \E i, j \in DOMAIN inp.waypoints :
           /\ i < j
           /\ out[1] = inp.waypoints[i]
           /\ inp.waypoints[j].lat # inp.waypoints[i].lat
           /\ HaversineDistance(inp.start_point, inp.waypoints[i].lat)
                  = HaversineDistance(inp.start_point, inp.waypoints[j].lat)


(***************************************************************************)
(* optimize_route_with_api_feedback, one invocation of the recursion at a  *)
(* time; log counts the steps taken.                                       *)
(***************************************************************************)
\* one invocation for a positive maximum: whether it calls itself again,
\* the order the sequencer gave the waypoints and the waypoints of the retry
FeedbackInvocation(c, waypoints, max_retries, attempt) ==
    IF waypoints = <<>>
    THEN [retry |-> FALSE, ordered_waypoints |-> <<>>, adjusted_waypoints |-> <<>>]
    ELSE LET ordered_waypoints == OptimizeRouteOrderTsp(c.start_point,
                                      c.end_point, waypoints)
             api_estimate == GetRealRouteEstimate(c.start_point, c.end_point,
                                 ordered_waypoints, c.vehicle_type,
                                 c.is_arrival, attempt)
         IN  IF /\ api_estimate.kind = "ok"
                /\ api_estimate.time_minutes > 10 * c.max_duration_minutes
                /\ max_retries > 0
             THEN [retry |-> TRUE, ordered_waypoints |-> ordered_waypoints,
                   adjusted_waypoints |->
                       AdjustedWaypoints(ordered_waypoints,
                           api_estimate.time_minutes, c.max_duration_minutes)]
             ELSE [retry |-> FALSE, ordered_waypoints |-> ordered_waypoints,
                   adjusted_waypoints |-> <<>>]

FeedbackReplies == {OracleNone, OracleOk(50), OracleOk(150), OracleOk(400)}

\* waypoints with distinct ids at either end of the grid
FeedbackWaypoints ==
    UNION {{[i \in 1 .. n |-> [person_id |-> i, lat |-> l[i]]] :
                l \in [1 .. n -> {0, MaxLat}]} : n \in 1 .. MaxPassengers}

FeedbackInputs ==
    [op : {"optimize_route_with_api_feedback"},
     start_point : {0}, end_point : {0, MaxLat},
     waypoints : FeedbackWaypoints, max_duration_minutes : Durations,
     vehicle_type : {"car"}, is_arrival : BOOLEAN,
     max_retries : {0, 1, DefaultMaxRetries}]

InitFeedback ==
    /\ pc = "call"
    /\ hour = 13
    /\ oracle \in [first : FeedbackReplies, retry : FeedbackReplies]
    /\ inp \in FeedbackInputs
    /\ out = <<>>
    /\ log = 0

\* the call of the caller
FeedbackEnter ==
    /\ pc = "call"
    /\ inp.op = "optimize_route_with_api_feedback"
    /\ pc' = "loop"
    /\ out' = [waypoints |-> inp.waypoints, max_retries |-> inp.max_retries,
               depth |-> 0, ordered_waypoints |-> <<>>]
    /\ log' = log + 1
    /\ UNCHANGED <<hour, oracle, inp>>

\* one invocation: it returns, or calls itself with the adjusted waypoints
FeedbackCall ==
    /\ pc = "loop"
    /\ inp.op = "optimize_route_with_api_feedback"
    /\ LET call == FeedbackInvocation(inp, out.waypoints, out.max_retries, out.depth)
       IN  IF call.retry
           THEN /\ out' = [waypoints |-> call.adjusted_waypoints,
                           max_retries |-> out.max_retries - 1,
                           depth |-> out.depth + 1,
                           ordered_waypoints |-> call.ordered_waypoints]
                /\ pc' = "loop"
           ELSE /\ out' = [out EXCEPT !.ordered_waypoints = call.ordered_waypoints]
                /\ pc' = "done"
    /\ log' = log + 1
    /\ UNCHANGED <<hour, oracle, inp>>

NextFeedback == FeedbackEnter \/ FeedbackCall

SpecFeedback == InitFeedback /\ [][NextFeedback]_vars

\* a is b without one or more of its last elements
StrictPrefix(a, b) == Len(a) < Len(b) /\ a = SubSeq(b, 1, Len(a))

\* C28: every retry is made with a non-empty waypoint list that is a strict
\* prefix of the ordered waypoints
RetryKeepsAWaypoint ==
    [][pc = "loop" /\ out'.depth = out.depth + 1
           => /\ out'.waypoints # <<>>
              /\ StrictPrefix(out'.waypoints, out'.ordered_waypoints)]_vars

\* every retry is made with a strict prefix of the ordered waypoints, which
\* is non-empty when the invocation had two waypoints or more
RetryShortens ==
    [][pc = "loop" /\ out'.depth = out.depth + 1
           => /\ StrictPrefix(out'.waypoints, out'.ordered_waypoints)
              /\ Len(out.waypoints) >= 2 => out'.waypoints # <<>>
              /\ Len(out.waypoints) = 1 => out'.waypoints = <<>>]_vars


(***************************************************************************)
(* The loops of the planners, one iteration at a time.                     *)
(***************************************************************************)
\* an iteration that puts the passenger in a route of their own and leaves
\* them in remaining
DivideStepKeepsPassenger(c, st) ==
    LET test_route == Append(st.current_route, Head(st.remaining))
        test_time == SubRoute(c, test_route).estimated_time
    IN  IF test_time <= 10 * c.max_duration_minutes /\ st.current_route # <<>>
        THEN [st EXCEPT !.current_route = test_route,
                        !.remaining = Tail(st.remaining)]
        ELSE [st EXCEPT !.subroutes =
                 Append(st.subroutes, SubRoute(c, <<Head(st.remaining)>>))]

\* one iteration of the while loop of divide_route_by_time_limit; st holds
\* current_route, remaining and subroutes
DivideStep(c, st) ==
    LET test_route == Append(st.current_route, Head(st.remaining))
        test_time == SubRoute(c, test_route).estimated_time
    IN  IF test_time <= 10 * c.max_duration_minutes /\ st.current_route # <<>>
        THEN [st EXCEPT !.current_route = test_route,
                        !.remaining = Tail(st.remaining)]
        ELSE LET closed == IF st.current_route # <<>>
                           THEN Append(st.subroutes, SubRoute(c, st.current_route))
                           ELSE st.subroutes
             IN  \* `if not current_route and remaining` holds here
                 [current_route |-> <<>>,
                  remaining |-> Tail(st.remaining),
                  subroutes |-> Append(closed, SubRoute(c, <<Head(st.remaining)>>))]

\* one iteration of the outer while loop of plan_routes_by_time_constraint
\* of app.py; st holds unassigned_passengers, vehicle_type_index and routes
AppPlanStep(c, vehicle_types, st) ==
    LET vehicle_type ==
            vehicle_types[(st.vehicle_type_index % Len(vehicle_types)) + 1]
        nearest == FindNearestPassenger(c.start_coord, st.unassigned_passengers)
        current_route == [passengers |-> <<nearest>>, estimated_time |-> 0,
                          vehicle_type |-> vehicle_type]
        filled == AppFillRoute(c, current_route,
                      RemoveFirst(st.unassigned_passengers, nearest))
    IN  [unassigned_passengers |-> filled.unassigned,
         vehicle_type_index |-> st.vehicle_type_index + 1,
         routes |-> Append(st.routes, filled.route)]

\* the branch optimize_route_order_tsp takes
TspMethod(waypoints) ==
    IF Len(waypoints) <= 1 THEN "given"
    ELSE IF Len(waypoints) <= BruteForceLimit THEN "optimize_route_brute_force"
    ELSE "two_opt_optimization"

NoReplies == [first |-> OracleNone, retry |-> OracleNone]

LoopInputs ==
    [op : {"optimize_route_order_tsp"},
     start_point : {0}, end_point : {0, MaxLat}, waypoints : TspStopLists]
    \cup [op : {"two_opt_optimization"},
          start_point : {0}, end_point : {0, MaxLat}, route : StopLists,
          max_iterations : {1, 2, MaxIterations}]
    \cup [op : {"divide_route_by_time_limit"},
          start_coord : {0}, end_coord : {0, MaxLat},
          passengers : PassengerLists, max_duration_minutes : Durations,
          vehicle_type : {"car"}, is_arrival : {TRUE}, area_type : {"urban"}]
    \cup [op : {"plan_routes_by_time_constraint"},
          start_coord : {0}, end_coord : {0, MaxLat},
          passengers : PassengerLists, max_duration_minutes : Durations,
          vehicle_types : {<<"car", "truck">>}]
    \cup FeedbackInputs

InitLoops ==
    /\ pc = "call"
    /\ hour = 13
    /\ inp \in LoopInputs
    /\ oracle \in [first : FeedbackReplies, retry : FeedbackReplies]
    /\ inp.op # "optimize_route_with_api_feedback" => oracle = NoReplies
    /\ out = <<>>
    /\ log = 0

\* optimize_route_order_tsp
TspCall ==
    /\ pc = "call"
    /\ inp.op = "optimize_route_order_tsp"
    /\ pc' = "done"
    /\ out' = [method |-> TspMethod(inp.waypoints),
               route |-> OptimizeRouteOrderTsp(inp.start_point, inp.end_point,
                             inp.waypoints)]
    /\ log' = log + 1
    /\ UNCHANGED <<hour, oracle, inp>>

\* two_opt_optimization with max_iterations given: the early return for two
\* stops or fewer, or the set-up of the loop
TwoOptEnter ==
    /\ pc = "call"
    /\ inp.op = "two_opt_optimization"
    /\ IF Len(inp.route) <= 2
       THEN /\ pc' = "done"
            /\ out' = [best_route |-> inp.route, improved |-> FALSE, iteration |-> 0]
       ELSE /\ pc' = "loop"
            /\ out' = [best_route |-> inp.route, improved |-> TRUE, iteration |-> 0]
    /\ log' = log + 1
    /\ UNCHANGED <<hour, oracle, inp>>

\* one iteration of `while improved and iteration < max_iterations`, or the
\* return when the condition fails
TwoOptWhile ==
    /\ pc = "loop"
    /\ inp.op = "two_opt_optimization"
    /\ IF out.improved /\ out.iteration < inp.max_iterations
       THEN LET st == TwoOptPass(inp.start_point, inp.end_point,
                          [best_route |-> out.best_route,
                           best_distance |-> CalculateRouteDistance(inp.start_point,
                                                 inp.end_point, out.best_route),
                           improved |-> FALSE], 0, 2)
            IN  /\ out' = [best_route |-> st.best_route, improved |-> st.improved,
                           iteration |-> out.iteration + 1]
                /\ pc' = "loop"
       ELSE /\ pc' = "done"
            /\ out' = out
    /\ log' = log + 1
    /\ UNCHANGED <<hour, oracle, inp>>

\* divide_route_by_time_limit: the early return or the set-up of the loop
DivideEnter ==
    /\ pc = "call"
    /\ inp.op = "divide_route_by_time_limit"
    /\ pc' = "loop"
    /\ out' = [current_route |-> <<>>, remaining |-> inp.passengers,
               subroutes |-> <<>>]
    /\ log' = log + 1
    /\ UNCHANGED <<hour, oracle, inp>>

\* one iteration of `while remaining`, or the code after the loop
DivideWhile ==
    /\ pc = "loop"
    /\ inp.op = "divide_route_by_time_limit"
    /\ IF out.remaining # <<>>
       THEN /\ out' = DivideStep(inp, out)
            /\ pc' = "loop"
       ELSE /\ out' = [out EXCEPT !.subroutes =
                          IF out.current_route # <<>>
                          THEN Append(out.subroutes, SubRoute(inp, out.current_route))
                          ELSE out.subroutes]
            /\ pc' = "done"
    /\ log' = log + 1
    /\ UNCHANGED <<hour, oracle, inp>>

\* plan_routes_by_time_constraint of app.py up to its outer loop
AppPlanEnter ==
    /\ pc = "call"
    /\ inp.op = "plan_routes_by_time_constraint"
    /\ pc' = "loop"
    /\ out' = [unassigned_passengers |-> inp.passengers,
               vehicle_type_index |-> 0, routes |-> <<>>]
    /\ log' = log + 1
    /\ UNCHANGED <<hour, oracle, inp>>

\* one iteration of `while unassigned_passengers`, or the return
AppPlanWhile ==
    /\ pc = "loop"
    /\ inp.op = "plan_routes_by_time_constraint"
    /\ IF out.unassigned_passengers # <<>>
       THEN /\ out' = AppPlanStep(inp, inp.vehicle_types, out)
            /\ pc' = "loop"
       ELSE /\ out' = out
            /\ pc' = "done"
    /\ log' = log + 1
    /\ UNCHANGED <<hour, oracle, inp>>

NextLoops ==
    \/ TspCall
    \/ TwoOptEnter \/ TwoOptWhile
    \/ DivideEnter \/ DivideWhile
    \/ AppPlanEnter \/ AppPlanWhile
    \/ FeedbackEnter \/ FeedbackCall

\* log counts the steps taken; a call that has not returned takes its next
\* step
Runs == pc # "done" /\ log' = log + 1

\* every call runs on until it returns
SpecLoops == InitLoops /\ [][NextLoops]_vars /\ WF_log(Runs)

\* the loop of the call is running
InLoop(op) == inp.op = op /\ pc = "loop"

\* C26: every call ends; the permutation search runs on at most 5
\* waypoints, 2-opt makes at most max_iterations passes, every iteration of
\* the splitter takes one passenger off remaining, every iteration of the
\* greedy planner takes at least one passenger off unassigned_passengers,
\* and the retry recursion is at most max_retries deep
PlannerTerminates ==
    /\ <>(pc = "done")
    /\ [](inp.op = "optimize_route_order_tsp" /\ pc = "done"
              /\ out.method = "optimize_route_brute_force"
           => Len(inp.waypoints) <= BruteForceLimit)
    /\ [](inp.op = "two_opt_optimization" /\ pc # "call"
           => out.iteration <= inp.max_iterations)
    /\ [][InLoop("divide_route_by_time_limit") /\ pc' = "loop"
           => Len(out'.remaining) = Len(out.remaining) - 1]_vars
    /\ [][InLoop("plan_routes_by_time_constraint") /\ pc' = "loop"
           => Len(out'.unassigned_passengers) < Len(out.unassigned_passengers)]_vars
    /\ [](inp.op = "optimize_route_with_api_feedback" /\ pc # "call"
           => out.depth <= inp.max_retries)

\* a call ended after its loop ran as long as it can: 2-opt was stopped by
\* max_iterations while still improving, or the recursion used every retry
LoopsRanOut ==
    /\ pc = "done"
    /\ \/ /\ inp.op = "two_opt_optimization"
          /\ out.improved /\ out.iteration = inp.max_iterations
       \/ /\ inp.op = "optimize_route_with_api_feedback"
          /\ inp.max_retries = DefaultMaxRetries
          /\ out.depth = inp.max_retries


(***************************************************************************)
(* cluster_passengers_by_distance called on its own; DBSCAN may raise.     *)
(***************************************************************************)
\* the function with its except branch: dbscan_raises tells whether the
\* fit raised
ClusterOrSingletons(passengers, eps50, min_samples, dbscan_raises) ==
    IF passengers = <<>> THEN <<>>
    ELSE IF dbscan_raises THEN [i \in DOMAIN passengers |-> <<passengers[i]>>]
    ELSE ClusterPassengersByDistance(passengers, eps50, min_samples)

\* epsilon 0.005, 0.01 (the default) and 0.02
ClusterEpsilons == {50 * 5000, 50 * 10000, 50 * 20000}

InitCluster ==
    /\ pc = "call"
    /\ hour = 13
    /\ oracle = NoOracle
    /\ inp \in [passengers : PassengerLists \cup {<<>>},
                epsilon50 : ClusterEpsilons,
                min_samples : 1 .. MaxPassengers,
                dbscan_raises : BOOLEAN]
    /\ out = <<>>
    /\ log = {}

CallCluster ==
    /\ pc = "call"
    /\ pc' = "done"
    /\ out' = ClusterOrSingletons(inp.passengers, inp.epsilon50,
                  inp.min_samples, inp.dbscan_raises)
    /\ UNCHANGED <<hour, oracle, inp, log>>

SpecCluster == InitCluster /\ [][CallCluster]_vars

\* the passenger at index i is noise: it has fewer than min_samples points
\* within epsilon and lies within epsilon of no point that has that many
IsNoise(i) ==
    LET lats == [k \in DOMAIN inp.passengers |-> inp.passengers[k].lat]
    IN  /\ ~DbscanCore(lats, inp.epsilon50, inp.min_samples, i)
        /\ \A j \in DOMAIN lats :
               DbscanCore(lats, inp.epsilon50, inp.min_samples, j)
                   => i \notin DbscanNeighbours(lats, inp.epsilon50, j)

\* the places <<cluster, position>> of out that hold the passenger p
PlacesOf(p) ==
    {place \in UNION {{<<c, k>> : k \in DOMAIN out[c]} : c \in DOMAIN out} :
        out[place[1]][place[2]] = p}

\* C27: the clusters partition the input: none is empty and every passenger
\* is in exactly one; a noise point is a cluster of its own; when DBSCAN
\* raises every passenger is a cluster of their own
ClustersPartition ==
    pc = "done" =>
        /\ \A c \in DOMAIN out : out[c] # <<>>
        /\ Len(Flatten(out)) = Len(inp.passengers)
        /\ \A i \in DOMAIN inp.passengers :
               Cardinality(PlacesOf(inp.passengers[i])) = 1
        /\ ~inp.dbscan_raises =>
               \A i \in DOMAIN inp.passengers :
                   IsNoise(i) => \E c \in DOMAIN out : out[c] = <<inp.passengers[i]>>
        /\ inp.dbscan_raises =>
               out = [i \in DOMAIN inp.passengers |-> <<inp.passengers[i]>>]

\* DBSCAN labelled one passenger noise and put two others in one cluster
NoiseBesideClusterReached ==
    /\ pc = "done"
    /\ ~inp.dbscan_raises
    /\ \E i \in DOMAIN inp.passengers : IsNoise(i)
    /\ \E c \in DOMAIN out : Len(out[c]) >= 2


(***************************************************************************)
(* RateLimiter of api_rate_limiter.py: threads calling wait_if_needed.     *)
(* Times are in seconds.  out holds the clock, the holder of self.lock,    *)
(* self.request_times, and for every thread the local `now`, the time its  *)
(* time.sleep ends and the calls it has made; log lists the times          *)
(* recorded, in the order of the appends.                                  *)
(***************************************************************************)
Threads == {"a", "b"}

MaxCalls == 2

MaxClock == 75

WindowSeconds == 60

\* the steps the clock is seen to make between two steps of the threads
Advances == {10, 50}

Free == "free"

\* 60.0 / self.requests_per_minute
MinInterval == WindowSeconds \div inp.requests_per_minute

RECURSIVE PopOld(_, _)
\* while self.request_times and (now - self.request_times[0]) > 60: popleft()
PopOld(request_times, now) ==
    IF request_times # <<>> /\ now - Head(request_times) > WindowSeconds
    THEN PopOld(Tail(request_times), now)
    ELSE request_times

\* deque.append with maxlen: a full deque drops its first element
DequeAppend(request_times, now, maxlen) ==
    IF Len(request_times) >= maxlen
    THEN Append(Tail(request_times), now)
    ELSE Append(request_times, now)

InitLimiter ==
    /\ pc = [t \in Threads |-> "idle"]
    /\ hour = 0
    /\ oracle = NoOracle
    /\ inp \in [requests_per_minute : {6, 60}, burst_limit : {2, 3}]
    /\ out = [clock |-> 0, lock |-> Free, request_times |-> <<>>,
              now |-> [t \in Threads |-> 0], wake |-> [t \in Threads |-> 0],
              calls |-> [t \in Threads |-> 0]]
    /\ log = <<>>

\* time passes
ClockAdvance ==
    /\ \E d \in Advances :
           /\ out.clock + d <= MaxClock
           /\ out' = [out EXCEPT !.clock = @ + d]
    /\ UNCHANGED <<pc, hour, oracle, inp, log>>

\* `with self.lock:` and `now = datetime.now()`
Acquire(t) ==
    /\ pc[t] = "idle"
    /\ out.calls[t] < MaxCalls
    /\ out.lock = Free
    /\ out' = [out EXCEPT !.lock = t, !.now[t] = out.clock]
    /\ pc' = [pc EXCEPT ![t] = "burst"]
    /\ UNCHANGED <<hour, oracle, inp, log>>

\* the burst check up to its time.sleep
BurstCheck(t) ==
    /\ pc[t] = "burst"
    /\ LET kept == IF Len(out.request_times) >= inp.burst_limit
                   THEN PopOld(out.request_times, out.now[t])
                   ELSE out.request_times
           wait_time == IF Len(kept) >= inp.burst_limit
                        THEN WindowSeconds - (out.now[t] - Head(kept))
                        ELSE 0
       IN  IF wait_time > 0
           THEN /\ out' = [out EXCEPT !.request_times = kept,
                                      !.wake[t] = out.clock + wait_time]
                /\ pc' = [pc EXCEPT ![t] = "sleep_burst"]
           ELSE /\ out' = [out EXCEPT !.request_times = kept]
                /\ pc' = [pc EXCEPT ![t] = "rate"]
    /\ UNCHANGED <<hour, oracle, inp, log>>

\* time.sleep(wait_time) returns, no earlier than asked, and
\* `now = datetime.now()`
BurstWake(t) ==
    /\ pc[t] = "sleep_burst"
    /\ out.clock >= out.wake[t]
    /\ out' = [out EXCEPT !.now[t] = out.clock]
    /\ pc' = [pc EXCEPT ![t] = "rate"]
    /\ UNCHANGED <<hour, oracle, inp, log>>

\* the sustained rate check up to its time.sleep
RateCheck(t) ==
    /\ pc[t] = "rate"
    /\ LET elapsed == out.now[t] - out.request_times[Len(out.request_times)]
       IN  IF out.request_times # <<>> /\ elapsed < MinInterval
           THEN /\ out' = [out EXCEPT !.wake[t] = out.clock + (MinInterval - elapsed)]
                /\ pc' = [pc EXCEPT ![t] = "sleep_rate"]
           ELSE /\ out' = out
                /\ pc' = [pc EXCEPT ![t] = "record"]
    /\ UNCHANGED <<hour, oracle, inp, log>>

RateWake(t) ==
    /\ pc[t] = "sleep_rate"
    /\ out.clock >= out.wake[t]
    /\ out' = [out EXCEPT !.now[t] = out.clock]
    /\ pc' = [pc EXCEPT ![t] = "record"]
    /\ UNCHANGED <<hour, oracle, inp, log>>

\* self.request_times.append(now), and the lock is released
Record(t) ==
    /\ pc[t] = "record"
    /\ out' = [out EXCEPT
                  !.request_times = DequeAppend(@, out.now[t],
                                        Max2(inp.requests_per_minute, inp.burst_limit)),
                  !.lock = Free,
                  !.calls[t] = @ + 1]
    /\ log' = Append(log, out.now[t])
    /\ pc' = [pc EXCEPT ![t] = "idle"]
    /\ UNCHANGED <<hour, oracle, inp>>

NextLimiter ==
    \/ ClockAdvance
    \/ \E t \in Threads :
           \/ Acquire(t)
           \/ BurstCheck(t)
           \/ BurstWake(t)
           \/ RateCheck(t)
           \/ RateWake(t)
           \/ Record(t)

SpecLimiter == InitLimiter /\ [][NextLimiter]_vars

\* at most one thread is between the acquire and the release of the lock,
\* and it is the holder
OneAtATime ==
    \A t \in Threads : pc[t] # "idle" => out.lock = t

\* the recorded times never decrease and consecutive ones are at least
\* 60 / requests_per_minute apart
SustainedRateKept ==
    \A i \in 1 .. Len(log) - 1 : log[i + 1] - log[i] >= MinInterval

\* no burst_limit + 1 recorded requests lie within 60 seconds of each other
BurstLimitKept ==
    \A i \in DOMAIN log :
        i + inp.burst_limit <= Len(log)
            => log[i + inp.burst_limit] - log[i] >= WindowSeconds

\* C30: requests are recorded one at a time, in non-decreasing time order,
\* at least 60 / requests_per_minute apart, and no more than burst_limit of
\* them in any 60-second window
LimitsKept == OneAtATime /\ SustainedRateKept /\ BurstLimitKept

\* what the limiter does keep: one request at a time, in time order, at
\* the sustained rate
RecordedInTurnAndSpaced == OneAtATime /\ SustainedRateKept

=============================================================================
